---- MODULE Spec2Model ----
(***************************************************************************)
(* Model of the Shopee Affiliate Hub data pipeline: the field normalizers, *)
(* the record processor and the sorts of CSVHandler (src/js/filter.js),    *)
(* the discount, storage and query-string helpers of Utils                 *)
(* (src/js/utils.js), the FilterManager (src/js/filter.js) with the query  *)
(* string and the listeners of its page, the SearchManager                 *)
(* (src/js/search.js) with the recent searches it keeps in localStorage,   *)
(* its listeners and its debounced search behind the search box of a page  *)
(* (src/js/product.js), and CSVHandler.loadCSV with the init of the pages  *)
(* that await it.                                                          *)
(*                                                                         *)
(* JavaScript values are modelled as follows.                              *)
(*   string   a sequence of one-character tokens; non-ASCII characters are *)
(*            named ("dong" is U+20AB / the letter used as currency sign,  *)
(*            "a_acute" is U+00E1, "comb_acute" is U+0301)                 *)
(*   number   an exact rational [n, d] in lowest terms, d > 0; NaN is      *)
(*            [0, 0] and +Infinity is [1, 0]                               *)
(*   raw CSV field   [t, s, v]: t is the JavaScript type ("undefined",     *)
(*            "string" or "number"), s the string, v the number            *)
(***************************************************************************)
EXTENDS Integers, Sequences, FiniteSets, TLC

VARIABLES call, rawData, processed, heap, returned, originalData, filteredData, activeFilters, sortCall,
          searchManager, localStorage, now, searchCall, searchListeners, location, listeners, filterCall,
          display, timers, timeout, input, burst, cache, isLoading, requests, app, loadCall

\* the state of the search manager, of the browser's store and clock
searchVars == <<searchManager, localStorage, now, searchCall, searchListeners>>

\* the query string of the page, the subscribers of the filter manager and
\* its last call
pageVars == <<location, listeners, filterCall>>

\* the search box of a page: the timers set and not yet run, the timer the
\* debounced search holds, the value of the input and the calls of the
\* debounced search since it last ran
boxVars == <<timers, timeout, input, burst>>

\* the CSV handler, the requests in flight, the page that loads and the last
\* call or callback of loadCSV
loadVars == <<cache, isLoading, requests, app, loadCall>>

vars == <<call, rawData, processed, heap, returned, originalData, filteredData, activeFilters, sortCall, searchVars, pageVars,
          display, boxVars, loadVars>>

(***************************************************************************)
(* Numbers                                                                 *)
(***************************************************************************)
RECURSIVE Gcd(_, _)
Gcd(a, b) == IF b = 0 THEN a ELSE Gcd(b, a % b)

Abs(x) == IF x < 0 THEN -x ELSE x

NaN == [n |-> 0, d |-> 0]

\* +Infinity; the comparisons below order it above every finite number
Infinity == [n |-> 1, d |-> 0]

Num(n, d) == LET g == Gcd(Abs(n), d) IN IF g = 0 THEN NaN ELSE [n |-> n \div g, d |-> d \div g]

Int2Num(i) == [n |-> i, d |-> 1]

isNaN(x) == x.d = 0 /\ x.n = 0

NumLt(a, b) == ~isNaN(a) /\ ~isNaN(b) /\ a.n * b.d < b.n * a.d

NumGt(a, b) == NumLt(b, a)

NumLe(a, b) == ~isNaN(a) /\ ~isNaN(b) /\ a.n * b.d <= b.n * a.d

NumMul(a, b) == IF isNaN(a) \/ isNaN(b) THEN NaN ELSE Num(a.n * b.n, a.d * b.d)

NumSub(a, b) == IF isNaN(a) \/ isNaN(b) THEN NaN ELSE Num(a.n * b.d - b.n * a.d, a.d * b.d)

\* Math.round: the nearest integer, a half rounding towards +Infinity
MathRound(x) == IF isNaN(x) THEN NaN ELSE Int2Num((2 * x.n + x.d) \div (2 * x.d))

MathMin(a, b) == IF isNaN(a) \/ isNaN(b) THEN NaN ELSE IF NumLt(b, a) THEN b ELSE a

MathMax(a, b) == IF isNaN(a) \/ isNaN(b) THEN NaN ELSE IF NumLt(a, b) THEN b ELSE a

isInteger(x) == x.d = 1

isFinite(x) == x.d > 0

RECURSIVE Pow10(_)
Pow10(k) == IF k = 0 THEN 1 ELSE 10 * Pow10(k - 1)

(***************************************************************************)
(* Strings                                                                 *)
(***************************************************************************)
Digits == <<"0", "1", "2", "3", "4", "5", "6", "7", "8", "9">>

IsDigit(c) == \E i \in 1..10 : Digits[i] = c

DigitVal(c) == (CHOOSE i \in 1..10 : Digits[i] = c) - 1

IsSpace(c) == c = " "

UpperCase == <<"A", "B", "C", "D", "E", "F", "G", "H", "I", "J", "K", "L", "M", "N", "O", "P", "Q", "R", "S", "T", "U", "V", "W", "X", "Y", "Z", "A_acute">>

LowerCase == <<"a", "b", "c", "d", "e", "f", "g", "h", "i", "j", "k", "l", "m", "n", "o", "p", "q", "r", "s", "t", "u", "v", "w", "x", "y", "z", "a_acute">>

toLowerChar(c) == IF \E i \in 1..Len(UpperCase) : UpperCase[i] = c THEN LowerCase[CHOOSE i \in 1..Len(UpperCase) : UpperCase[i] = c] ELSE c

toLowerCase(s) == [i \in 1..Len(s) |-> toLowerChar(s[i])]

RECURSIVE trimStart(_)
trimStart(s) == IF s # <<>> /\ IsSpace(Head(s)) THEN trimStart(Tail(s)) ELSE s

RECURSIVE trimEnd(_)
trimEnd(s) == IF s # <<>> /\ IsSpace(s[Len(s)]) THEN trimEnd(SubSeq(s, 1, Len(s) - 1)) ELSE s

trim(s) == trimEnd(trimStart(s))

\* the places of an array of length n
Indices(n) == [i \in 1..n |-> i]

includes(s, q) == \E i \in 0..(Len(s) - Len(q)) : SubSeq(s, i + 1, i + Len(q)) = q

\* the length of the longest prefix of s made of digits
RECURSIVE DigitRun(_)
DigitRun(s) == IF s # <<>> /\ IsDigit(Head(s)) THEN 1 + DigitRun(Tail(s)) ELSE 0

\* the value of a string of digits read in base 10
RECURSIVE DigitsValue(_)
DigitsValue(s) == IF s = <<>> THEN 0 ELSE 10 * DigitsValue(SubSeq(s, 1, Len(s) - 1)) + DigitVal(s[Len(s)])

\* the decimal digits of a non-negative integer
RECURSIVE NatToString(_)
NatToString(i) == IF i < 10 THEN <<Digits[i + 1]>> ELSE NatToString(i \div 10) \o <<Digits[(i % 10) + 1]>>

\* the digits of f written with exactly k places
RECURSIVE FracToString(_, _)
FracToString(f, k) == IF k = 0 THEN <<>> ELSE FracToString(f \div 10, k - 1) \o <<Digits[(f % 10) + 1]>>

\* the number of decimal places a / d needs, d dividing a power of ten
RECURSIVE Places(_, _)
Places(a, d) == IF a % d = 0 THEN 0 ELSE 1 + Places(10 * a, d)

\* the decimal digits of m / 10^k
DecimalString(m, k) == NatToString(m \div Pow10(k)) \o (IF k = 0 THEN <<>> ELSE <<".">> \o FracToString(m % Pow10(k), k))

\* the decimal digits of a / d written with k places
ScaledString(a, d, k) == DecimalString((a * Pow10(k)) \div d, k)

\* Number.prototype.toString for the finite decimals of this model
NumToString(x) ==
    IF isNaN(x) THEN <<"N", "a", "N">>
    ELSE (IF x.n < 0 THEN <<"-">> ELSE <<>>) \o ScaledString(Abs(x.n), x.d, Places(Abs(x.n), x.d))

\* the number of fraction digits of a literal that continues with rest
FractionRun(rest) == IF rest # <<>> /\ Head(rest) = "." THEN DigitRun(Tail(rest)) ELSE 0

\* the value of i integer digits and f fraction digits at the head of s
LiteralValue(s, i, f) ==
    IF i = 0 /\ f = 0 THEN NaN
    ELSE Num(DigitsValue(SubSeq(s, 1, i)) * Pow10(f) + DigitsValue(SubSeq(s, i + 2, i + 1 + f)), Pow10(f))

IntegerPart(s, i) == LiteralValue(s, i, FractionRun(SubSeq(s, i + 1, Len(s))))

\* the unsigned decimal literal at the head of s
UnsignedLiteral(s) == IntegerPart(s, DigitRun(s))

Negate(x) == [n |-> -x.n, d |-> x.d]

\* the decimal literal at the head of s, with its sign
SignedLiteral(s) ==
    IF s # <<>> /\ Head(s) = "-" THEN Negate(UnsignedLiteral(Tail(s)))
    ELSE UnsignedLiteral(IF s # <<>> /\ Head(s) = "+" THEN Tail(s) ELSE s)

\* parseFloat on a string: leading white space, an optional sign, digits
\* with an optional fraction; NaN when no digit is found.  The strings of
\* this model carry no exponent marker and never spell Infinity.
parseFloatStr(s) == SignedLiteral(trimStart(s))

\* the integer literal at the head of s
UnsignedInteger(s) == LiteralValue(s, DigitRun(s), 0)

SignedInteger(s) ==
    IF s # <<>> /\ Head(s) = "-" THEN Negate(UnsignedInteger(Tail(s)))
    ELSE UnsignedInteger(IF s # <<>> /\ Head(s) = "+" THEN Tail(s) ELSE s)

\* parseInt(s, 10): leading white space, an optional sign, digits; NaN when
\* no digit is found
parseInt(s) == SignedInteger(trimStart(s))

\* parseInt(s, 10) on a string that holds digits only
parseIntDigits(s) == IF s = <<>> THEN NaN ELSE Int2Num(DigitsValue(s))

(***************************************************************************)
(* Raw CSV fields: JavaScript values of unknown shape                      *)
(***************************************************************************)
Undefined == [t |-> "undefined", s |-> <<>>, v |-> NaN]

Str(s) == [t |-> "string", s |-> s, v |-> NaN]

Number(x) == [t |-> "number", s |-> <<>>, v |-> x]

\* ToBoolean: undefined, the empty string, 0 and NaN are falsy
Truthy(x) ==
    CASE x.t = "undefined" -> FALSE
      [] x.t = "string" -> x.s # <<>>
      [] OTHER -> ~isNaN(x.v) /\ x.v.n # 0

\* value.toString()
toString(x) == IF x.t = "string" THEN x.s ELSE NumToString(x.v)

\* parseFloat(value): the argument is converted to a string first
parseFloat(x) == IF x.t = "undefined" THEN NaN ELSE parseFloatStr(toString(x))

(***************************************************************************)
(* Field normalizers (CSVHandler, Utils)                                   *)
(***************************************************************************)
IsPriceChar(c) == IsDigit(c) \/ c = "."

\* isNaN(parsed) ? dflt : parsed
OrDefault(parsed, dflt) == IF isNaN(parsed) THEN dflt ELSE parsed

\* CSVHandler.parsePrice
parsePrice(price) ==
    IF ~Truthy(price) THEN Int2Num(0)
    ELSE OrDefault(parseFloatStr(SelectSeq(toString(price), IsPriceChar)), Int2Num(0))

\* isNaN(num) ? 0 : Math.round(num * unit)
RoundedTimes(num, unit) == IF isNaN(num) THEN Int2Num(0) ELSE MathRound(NumMul(num, Int2Num(unit)))

\* the body of parseSoldCount on the lower-cased string
soldCountOf(str) ==
    IF includes(str, <<"k">>) THEN RoundedTimes(parseFloatStr(str), 1000)
    ELSE IF includes(str, <<"m">>) THEN RoundedTimes(parseFloatStr(str), 1000000)
    ELSE OrDefault(parseIntDigits(SelectSeq(str, IsDigit)), Int2Num(0))

\* CSVHandler.parseSoldCount
parseSoldCount(count) == IF ~Truthy(count) THEN Int2Num(0) ELSE soldCountOf(toLowerCase(toString(count)))

\* the body of parseRatingCount on the lower-cased string
ratingCountOf(str) ==
    IF includes(str, <<"k">>) THEN NumMul(parseFloatStr(str), Int2Num(1000))
    ELSE IF includes(str, <<"m">>) THEN NumMul(parseFloatStr(str), Int2Num(1000000))
    ELSE OrDefault(parseIntDigits(SelectSeq(str, IsDigit)), Int2Num(0))

\* CSVHandler.parseRatingCount
parseRatingCount(count) == IF ~Truthy(count) THEN Int2Num(0) ELSE ratingCountOf(toLowerCase(toString(count)))

\* CSVHandler.parseFollowerCount
parseFollowerCount(count) == parseRatingCount(count)

\* isNaN(parsed) ? 5 : Math.min(Math.max(parsed, 0), 5)
clampRating(parsed) == IF isNaN(parsed) THEN Int2Num(5) ELSE MathMin(MathMax(parsed, Int2Num(0)), Int2Num(5))

\* CSVHandler.parseRating
parseRating(rating) == IF ~Truthy(rating) THEN Int2Num(5) ELSE clampRating(parseFloat(rating))

\* The operand pairs of this model for which ((o - s) / o) * 100, evaluated
\* in IEEE-754 binary64 as the source writes it, comes out below the exact
\* quotient: (200 - 171) / 200 is 0.145 and 0.145 * 100 is 14.499999999999998
Binary64Below == {<<Int2Num(200), Int2Num(171)>>}

\* the rounding error of a binary64 product, far below every gap between the
\* exact quotients of this model and the nearest half
Ulp == Num(1, 1000000)

\* the exact value of ((o - s) / o) * 100, for o > 0
exactPercent(o, s) == Num(100 * (o.n * s.d - s.n * o.d), o.n * s.d)

\* ((originalPrice - salePrice) / originalPrice) * 100 in binary64
discountPercent(o, s) == IF <<o, s>> \in Binary64Below THEN NumSub(exactPercent(o, s), Ulp) ELSE exactPercent(o, s)

\* Utils.calculateDiscount
calculateDiscount(originalPrice, salePrice) ==
    IF ~Truthy(Number(originalPrice)) \/ ~Truthy(Number(salePrice)) \/ NumLe(originalPrice, Int2Num(0)) THEN Int2Num(0)
    ELSE MathRound(discountPercent(originalPrice, salePrice))

(***************************************************************************)
(* Calls of the field normalizers on raw fields                            *)
(***************************************************************************)
RawPriceInputs ==
    { Undefined, Str(<<>>), Str(<<"1", "5", "0", ".", "0", "0", "0", "dong">>),
      Str(<<"1", ".", "5", "0", "0", ".", "0", "0", "0", "dong">>),
      Str(<<"1", ".", "2", "0", "0", ".", "0", "0", "0", "dong">>),
      Str(<<"2", "0", "0">>), Str(<<"1", "7", "1">>), Str(<<"1", "0", "0">>),
      Str(<<"a", "b", "c">>), Str(<<".">>), Str(<<"-", "5">>), Str(<<"1", ",", "5">>),
      Str(<<"dong">>), Str(<<"8", "0", " ", "0", "0", "0">>),
      Number(Int2Num(100000)), Number(Int2Num(0)), Number(Num(3, 2)) }

RawCountInputs ==
    { Undefined, Str(<<>>), Str(<<"1", ".", "2", "k">>), Str(<<"3", "m">>), Str(<<"2", "5", "0">>),
      Str(<<"2", ".", "5", "k">>), Str(<<"-", "2", "k">>), Str(<<"k">>), Str(<<"a", "b", "c", " ", "m">>),
      Str(<<"1", ".", "2", "3", "4", "5", "k">>), Str(<<"1", ".", "5", "K">>), Str(<<"1", ",", "2", "3", "4">>),
      Str(<<"a", "b", "c">>), Str(<<"5", " ", "k", "m">>), Str(<<"1", "2", "0">>), Str(<<"-", "7">>),
      Number(Int2Num(1500)), Number(Int2Num(0)), Number(Num(5, 2)) }

RawRatingInputs ==
    { Undefined, Str(<<>>), Str(<<"4", ".", "5">>), Str(<<"0">>), Str(<<"0", ".", "0">>), Str(<<"7">>),
      Str(<<"-", "3">>), Str(<<"a", "b", "c">>), Str(<<" ", "3">>), Str(<<"4", ".", "8", "/", "5">>),
      Number(Int2Num(0)), Number(Num(9, 2)), Number(Int2Num(7)), Number(Int2Num(-1)) }

DiscountArgs ==
    { Int2Num(0), Int2Num(-100), Int2Num(100), Int2Num(200), Int2Num(171), Int2Num(201),
      Int2Num(100000), Int2Num(80000), Num(3, 2), Num(6, 5), NaN }

NoCall == [fn |-> "none", arg |-> Undefined, arg2 |-> Undefined, ret |-> NaN]

Call1(fn, arg, ret) == [fn |-> fn, arg |-> arg, arg2 |-> Undefined, ret |-> ret]

ParsePrice == \E raw \in RawPriceInputs : call' = Call1("parsePrice", raw, parsePrice(raw))

ParseSoldCount == \E raw \in RawCountInputs : call' = Call1("parseSoldCount", raw, parseSoldCount(raw))

ParseRatingCount == \E raw \in RawCountInputs : call' = Call1("parseRatingCount", raw, parseRatingCount(raw))

ParseFollowerCount == \E raw \in RawCountInputs : call' = Call1("parseFollowerCount", raw, parseFollowerCount(raw))

ParseRating == \E raw \in RawRatingInputs : call' = Call1("parseRating", raw, parseRating(raw))

CalculateDiscount == \E o \in DiscountArgs, s \in DiscountArgs : call' = [fn |-> "calculateDiscount", arg |-> Number(o), arg2 |-> Number(s), ret |-> calculateDiscount(o, s)]

(***************************************************************************)
(* Record processor (CSVHandler)                                           *)
(*                                                                         *)
(* A processed collection holds the canonical records in all; every other  *)
(* array of the collection holds references to those objects, modelled as  *)
(* indices into all.  The presentation fields of a canonical record        *)
(* (image, logo, link, description, verified) are left out.  A call that   *)
(* throws returns nothing: status records the exception.                   *)
(***************************************************************************)
\* Object.keys(CONFIG.categories)
CategoryKeys ==
    { <<"t", "h", "o", "i", "-", "t", "r", "a", "n", "g">>, <<"d", "i", "e", "n", "-", "t", "u">>,
      <<"m", "y", "-", "p", "h", "a", "m">>, <<"n", "h", "a", "-", "c", "u", "a">>,
      <<"s", "u", "c", "-", "k", "h", "o", "e">>, <<"t", "h", "e", "-", "t", "h", "a", "o">>,
      <<"m", "e", "-", "b", "e">>, <<"d", "o", "-", "a", "n">>, <<"s", "a", "c", "h", "-", "v", "o">> }

\* Object.keys(CONFIG.tiers)
TierKeys == { <<"n", "1">>, <<"n", "2">>, <<"n", "3">> }

\* the lower-case property names every plain object inherits from
\* Object.prototype: byCategory[name] is then a value that is not an array
PrototypeKeys == { <<"c", "o", "n", "s", "t", "r", "u", "c", "t", "o", "r">>, <<"_", "_", "p", "r", "o", "t", "o", "_", "_">> }

\* (field || dflt).toLowerCase() throws a TypeError on a truthy value that
\* is not a string
LowerThrows(field) == Truthy(field) /\ field.t # "string"

\* (field || dflt).toLowerCase()
OrLower(field, dflt) == toLowerCase(IF Truthy(field) THEN field.s ELSE dflt)

\* field || dflt
OrElse(field, dflt) == IF Truthy(field) THEN field ELSE dflt

\* CSVHandler.normalizeShopData; genId is the value Utils.generateId draws
\* 'Cửa hàng chính thức', the type of a shop that names none
OfficialStore ==
    <<"C", "u_horn_hook", "a", " ", "h", "a_grave", "n", "g", " ", "c", "h", "i_acute", "n", "h", " ", "t", "h", "u_horn_acute", "c">>

normalizeShopData(shop, genId) ==
    [ id |-> OrElse(shop.id, Str(genId)),
      name |-> OrElse(shop.shop_name, Str(<<"U", "n", "k", "n", "o", "w", "n", " ", "S", "h", "o", "p">>)),
      category |-> trim(OrLower(shop.category, <<>>)),
      type |-> OrElse(shop.shop_type, Str(OfficialStore)),
      rating |-> Number(parseRating(shop.rating)),
      tier |-> OrLower(shop.tier, <<"n", "3">>),
      ratingCount |-> parseRatingCount(shop.rating_count),
      followers |-> parseFollowerCount(shop.followers) ]

normalizeShopThrows(shop) == LowerThrows(shop.category) \/ LowerThrows(shop.tier)

\* the record normalizeProductData returns, given the two parsed prices
productRecord(product, genId, rndRating, originalPrice, salePrice) ==
    [ id |-> OrElse(product.id, Str(genId)),
      name |-> OrElse(product.product_name, Str(<<"U", "n", "k", "n", "o", "w", "n", " ", "P", "r", "o", "d", "u", "c", "t">>)),
      category |-> trim(OrLower(product.category, <<>>)),
      originalPrice |-> originalPrice,
      salePrice |-> salePrice,
      discount |-> calculateDiscount(originalPrice, salePrice),
      soldCount |-> parseSoldCount(product.sold_count),
      tier |-> trim(OrLower(product.tier, <<"n", "3">>)),
      rating |-> Str(rndRating),
      shopName |-> OrElse(product.shop_name, Str(<<"S", "h", "o", "p", "e", "e">>)) ]

\* CSVHandler.normalizeProductData; genId and rndRating are the values
\* Utils.generateId and Utils.generateRandomRating draw
normalizeProductData(product, genId, rndRating) ==
    productRecord(product, genId, rndRating, parsePrice(product.original_price), parsePrice(product.sale_price))

normalizeProductThrows(product) == LowerThrows(product.category) \/ LowerThrows(product.tier)

EmptyCollection(kind) ==
    [ kind |-> kind, status |-> "ok", all |-> <<>>, highEnd |-> <<>>, budget |-> <<>>, mixed |-> <<>>,
      byCategory |-> [k \in CategoryKeys |-> <<>>], byTier |-> [k \in TierKeys |-> <<>>], bestSellers |-> <<>> ]

Thrown(kind) == [EmptyCollection(kind) EXCEPT !.status = "TypeError"]

NoCollection == EmptyCollection("none")

\* processed.all.unshift(item) in the place of push(item)
unshiftAll(acc, item) == [acc EXCEPT !.all = <<item>> \o @]

\* processed.all.push(item)
pushAll(acc, item) == [acc EXCEPT !.all = Append(@, item)]

\* the tier switch of processShopData, with its default branch
shopTierSwitch(acc, tier, ref) ==
    CASE tier = <<"n", "1">> -> [acc EXCEPT !.highEnd = Append(@, ref), !.byTier[<<"n", "1">>] = Append(@, ref)]
      [] tier = <<"n", "2">> -> [acc EXCEPT !.budget = Append(@, ref), !.byTier[<<"n", "2">>] = Append(@, ref)]
      [] tier = <<"n", "3">> -> [acc EXCEPT !.mixed = Append(@, ref), !.byTier[<<"n", "3">>] = Append(@, ref)]
      [] OTHER -> [acc EXCEPT !.mixed = Append(@, ref)]

\* the tier switch of processProductData, which has no default branch
productTierSwitch(acc, tier, ref) ==
    CASE tier = <<"n", "1">> -> [acc EXCEPT !.highEnd = Append(@, ref), !.byTier[<<"n", "1">>] = Append(@, ref)]
      [] tier = <<"n", "2">> -> [acc EXCEPT !.budget = Append(@, ref), !.byTier[<<"n", "2">>] = Append(@, ref)]
      [] tier = <<"n", "3">> -> [acc EXCEPT !.mixed = Append(@, ref), !.byTier[<<"n", "3">>] = Append(@, ref)]
      [] OTHER -> acc

\* processed.byCategory[category].unshift(item) in the place of push(item)
unshiftByCategory(acc, category, ref) ==
    IF category \in PrototypeKeys THEN Thrown(acc.kind)
    ELSE IF category \in CategoryKeys THEN [acc EXCEPT !.byCategory[category] = <<ref>> \o @]
    ELSE acc

\* if (processed.byCategory[category]) processed.byCategory[category].push(item):
\* a name inherited from Object.prototype is truthy and has no push
pushByCategory(acc, category, ref) ==
    IF category \in PrototypeKeys THEN Thrown(acc.kind)
    ELSE IF category \in CategoryKeys THEN [acc EXCEPT !.byCategory[category] = Append(@, ref)]
    ELSE acc

\* if (normalizedProduct.soldCount >= 100) in the place of > 100
trackFromHundred(acc, soldCount, ref) ==
    IF acc.status = "ok" /\ NumLe(Int2Num(100), soldCount) THEN [acc EXCEPT !.bestSellers = Append(@, ref)] ELSE acc

\* if (normalizedProduct.soldCount > 100) processed.bestSellers.push(item)
trackBestSeller(acc, soldCount, ref) ==
    IF acc.status = "ok" /\ NumGt(soldCount, Int2Num(100)) THEN [acc EXCEPT !.bestSellers = Append(@, ref)] ELSE acc

\* the body of data.forEach in processShopData, after the normalization
shopIndex(acc, normalizedShop, ref) ==
    pushByCategory(shopTierSwitch(pushAll(acc, normalizedShop), trim(toLowerCase(normalizedShop.tier)), ref),
                   trim(toLowerCase(normalizedShop.category)), ref)

\* the body of data.forEach in processProductData, after the normalization
productIndex(acc, normalizedProduct, ref) ==
    trackBestSeller(pushByCategory(productTierSwitch(pushAll(acc, normalizedProduct), trim(toLowerCase(normalizedProduct.tier)), ref),
                                   trim(toLowerCase(normalizedProduct.category)), ref),
                    normalizedProduct.soldCount, ref)

\* one iteration of data.forEach in processShopData
shopStep(acc, shop, genId) ==
    IF normalizeShopThrows(shop) THEN Thrown("shop")
    ELSE shopIndex(acc, normalizeShopData(shop, genId), Len(acc.all) + 1)

\* one iteration of data.forEach in processProductData
productStep(acc, product, genId, rndRating) ==
    IF normalizeProductThrows(product) THEN Thrown("product")
    ELSE productIndex(acc, normalizeProductData(product, genId, rndRating), Len(acc.all) + 1)

RECURSIVE shopLoop(_, _, _, _)
shopLoop(data, rnd, i, acc) ==
    IF i > Len(data) \/ acc.status # "ok" THEN acc
    ELSE shopLoop(data, rnd, i + 1, shopStep(acc, data[i], rnd[i].id))

RECURSIVE productLoop(_, _, _, _)
productLoop(data, rnd, i, acc) ==
    IF i > Len(data) \/ acc.status # "ok" THEN acc
    ELSE productLoop(data, rnd, i + 1, productStep(acc, data[i], rnd[i].id, rnd[i].rating))

\* the place of element i of a stable sort by descending key
rankDescending(keys, i) == 1 + Cardinality({j \in 1..Len(keys) : NumGt(keys[j], keys[i]) \/ (keys[j] = keys[i] /\ j < i)})

\* Array.prototype.sort with the comparator (a, b) => key(b) - key(a): the
\* sort is stable, so an element comes before every element with a smaller
\* key and before the later elements with an equal key
sortDescending(items, keys) == [k \in 1..Len(items) |-> items[CHOOSE i \in 1..Len(items) : rankDescending(keys, i) = k]]

\* processed.bestSellers.sort((a, b) => b.soldCount - a.soldCount)
sortBestSellers(acc) ==
    [acc EXCEPT !.bestSellers = sortDescending(acc.bestSellers, [k \in 1..Len(acc.bestSellers) |-> acc.all[acc.bestSellers[k]].soldCount])]

\* CSVHandler.processShopData; rnd[i] holds the random draws of iteration i
processShopData(data, rnd) == shopLoop(data, rnd, 1, EmptyCollection("shop"))

\* CSVHandler.processProductData; rnd[i] holds the random draws of iteration i
processProductData(data, rnd) == sortBestSellers(productLoop(data, rnd, 1, EmptyCollection("product")))

\* the objects a process call creates: the object processed, byCategory and
\* byTier, the array literals all, highEnd, budget and mixed (bestSellers too
\* for products), one array per category and per tier key, and the object
\* literal each normalize call returns
allocations(result) ==
    3 + 4 + (IF result.kind = "product" THEN 1 ELSE 0) + Cardinality(CategoryKeys) + Cardinality(TierKeys) + Len(result.all)

\* a process call takes its objects from the unused part of the heap and
\* returns them unless an exception ends it
track(result) ==
    /\ heap' = heap + allocations(result)
    /\ returned' = IF result.status = "ok" THEN Append(returned, (heap + 1)..(heap + allocations(result))) ELSE returned

(***************************************************************************)
(* Raw records handed to the record processor                              *)
(***************************************************************************)
\* the longest array of raw records handed to the processor
MaxData == 3

RawProduct(id, name, category, original, sale, sold, tier) ==
    [ id |-> id, product_name |-> name, category |-> category, original_price |-> original,
      sale_price |-> sale, sold_count |-> sold, tier |-> tier, shop_name |-> Undefined ]

RawShop(id, name, category, rating, tier, count, followers) ==
    [ id |-> id, shop_name |-> name, category |-> category, rating |-> rating, tier |-> tier,
      rating_count |-> count, followers |-> followers, shop_type |-> Undefined ]

RawProducts ==
    { RawProduct(Str(<<"1">>), Str(<<"A_acute", "o">>), Str(<<"t", "h", "o", "i", "-", "t", "r", "a", "n", "g">>),
                 Str(<<"1", ".", "5", "0", "0", ".", "0", "0", "0", "dong">>), Str(<<"1", ".", "2", "0", "0", ".", "0", "0", "0", "dong">>),
                 Str(<<"2", ".", "5", "k">>), Str(<<"n", "1">>)),
      RawProduct(Str(<<"2">>), Str(<<"a", "o", " ", "b">>), Str(<<"x", "y", "z">>),
                 Str(<<"1", "0", "0">>), Str(<<"2", "0", "0">>), Str(<<"-", "2", "k">>), Str(<<"v", "i", "p">>)),
      RawProduct(Undefined, Undefined, Str(<<" ", "D", "i", "e", "n", "-", "T", "u">>),
                 Str(<<"a", "b", "c">>), Str(<<>>), Str(<<"2", "5", "0">>), Undefined),
      RawProduct(Str(<<"4">>), Str(<<"b">>), Str(<<"d", "i", "e", "n", "-", "t", "u">>),
                 Number(Int2Num(200000)), Number(Int2Num(150000)), Str(<<"1", "0", "0">>), Str(<<"N", "2", " ">>)),
      RawProduct(Str(<<"5">>), Number(Int2Num(5)), Str(<<"c", "o", "n", "s", "t", "r", "u", "c", "t", "o", "r">>),
                 Str(<<"2", "0", "0">>), Str(<<"1", "7", "1">>), Number(Int2Num(1500)), Str(<<"n", "3">>)),
      RawProduct(Str(<<"6">>), Str(<<"a">>), Number(Int2Num(5)),
                 Number(Int2Num(100000)), Number(Int2Num(80000)), Str(<<"1", "2", "0">>), Number(Int2Num(0))) }

RawShops ==
    { RawShop(Str(<<"1">>), Str(<<"A_acute", "o">>), Str(<<"t", "h", "o", "i", "-", "t", "r", "a", "n", "g">>),
              Str(<<"4", ".", "5">>), Str(<<"n", "1">>), Str(<<"1", ".", "2", "k">>), Str(<<"3", "m">>)),
      RawShop(Str(<<"2">>), Str(<<"a", "o", " ", "b">>), Str(<<"x", "y", "z">>),
              Number(Int2Num(0)), Str(<<"v", "i", "p">>), Str(<<"k">>), Str(<<"-", "2", "k">>)),
      RawShop(Undefined, Undefined, Str(<<" ", "D", "i", "e", "n", "-", "T", "u">>),
              Undefined, Undefined, Undefined, Str(<<"2", "5", "0">>)),
      RawShop(Str(<<"4">>), Str(<<"b">>), Str(<<"d", "i", "e", "n", "-", "t", "u">>),
              Str(<<"3">>), Str(<<" ", "N", "2">>), Number(Int2Num(1500)), Str(<<"a", "b", "c">>)),
      RawShop(Str(<<"5">>), Str(<<"x">>), Str(<<"c", "o", "n", "s", "t", "r", "u", "c", "t", "o", "r">>),
              Str(<<"4", ".", "5">>), Str(<<"n", "3">>), Undefined, Undefined),
      RawShop(Str(<<"6">>), Str(<<"a">>), Str(<<"d", "i", "e", "n", "-", "t", "u">>),
              Number(Num(9, 2)), Number(Int2Num(2)), Undefined, Undefined) }

\* the strings Utils.generateId may return
GeneratedIds == { <<"a", "B", "3">>, <<"Z", "9", "x">> }

\* the strings Utils.generateRandomRating may return: (4 + Math.random()).toFixed(1)
RandomRatings == { <<"4", ".", "0">>, <<"4", ".", "7">> }

SeqsUpTo(S, n) == UNION { [1..k -> S] : k \in 0..n }

\* the random draws of one iteration over a product: an id is drawn only
\* when the record has none
ProductDraws(record) == [ id : IF Truthy(record.id) THEN {<<>>} ELSE GeneratedIds, rating : RandomRatings ]

\* the random draws of one iteration over a shop
ShopDraws(record) == [ id : IF Truthy(record.id) THEN {<<>>} ELSE GeneratedIds ]

ShopDrawSeqs(data) == { r \in [1..Len(data) -> UNION { ShopDraws(s) : s \in RawShops }] : \A i \in 1..Len(data) : r[i] \in ShopDraws(data[i]) }

ProductDrawSeqs(data) == { r \in [1..Len(data) -> UNION { ProductDraws(p) : p \in RawProducts }] : \A i \in 1..Len(data) : r[i] \in ProductDraws(data[i]) }

IsShops(data) == \A i \in 1..Len(data) : data[i] \in RawShops

IsProducts(data) == \A i \in 1..Len(data) : data[i] \in RawProducts

\* the longest array handed to a process call a second time
MaxAgain == 1

\* a first call, or a second call on the same array
Callable == processed.kind = "none" \/ (Len(returned) = 1 /\ Len(rawData) <= MaxAgain)

\* a call of processShopData on the array rawData
ProcessShopData ==
    /\ Callable
    /\ IsShops(rawData)
    /\ \E rnd \in ShopDrawSeqs(rawData) : processed' = processShopData(rawData, rnd) /\ track(processed')
    /\ UNCHANGED rawData

\* a call of processProductData on the array rawData
ProcessProductData ==
    /\ Callable
    /\ IsProducts(rawData)
    /\ \E rnd \in ProductDrawSeqs(rawData) : processed' = processProductData(rawData, rnd) /\ track(processed')
    /\ UNCHANGED rawData

(***************************************************************************)
(* Search helper of CSVHandler and text normalization of Utils            *)
(***************************************************************************)
\* CONFIG.search.minQueryLength
minQueryLength == 2

IsCombining(c) == c \in { "comb_acute", "comb_grave", "comb_hook", "comb_horn" }

\* String.prototype.normalize('NFD'): canonical decomposition
RECURSIVE NFD(_)
NFD(s) ==
    IF s = <<>> THEN <<>>
    ELSE (CASE Head(s) = "a_acute" -> <<"a", "comb_acute">>
            [] Head(s) = "A_acute" -> <<"A", "comb_acute">>
            [] Head(s) = "a_grave" -> <<"a", "comb_grave">>
            [] Head(s) = "i_acute" -> <<"i", "comb_acute">>
            [] Head(s) = "u_horn_hook" -> <<"u", "comb_horn", "comb_hook">>
            [] Head(s) = "u_horn_acute" -> <<"u", "comb_horn", "comb_acute">>
            [] OTHER -> <<Head(s)>>) \o NFD(Tail(s))

NotCombining(c) == ~IsCombining(c)

\* the marks stripped before the decomposition instead of after it
stripThenDecompose(text) ==
    IF text = <<>> THEN <<>>
    ELSE trim(toLowerCase(NFD(SelectSeq(text, NotCombining))))

\* Utils.normalizeVietnamese on a string
normalizeVietnamese(text) ==
    IF text = <<>> THEN <<>>
    ELSE trim(toLowerCase(SelectSeq(NFD(text), NotCombining)))

\* the longest text normalized
MaxText == 3

\* the characters of the texts normalized
TextChars == { "a", "A", "b", " ", "a_acute", "A_acute", "u_horn_hook", "comb_acute" }

RECURSIVE TextsOf(_)
TextsOf(n) == IF n = 0 THEN { <<>> } ELSE { <<c>> \o t : c \in TextChars, t \in TextsOf(n - 1) }

Texts == UNION { TextsOf(n) : n \in 0..MaxText }

\* a text about to be normalized
TextCall(text) == [fn |-> "text", arg |-> text, from |-> text, again |-> FALSE, ret |-> <<>>]

\* Utils.normalizeVietnamese(text) called on the text
NormalizeVietnamese ==
    /\ call.fn = "text"
    /\ call' = [call EXCEPT !.fn = "normalizeVietnamese", !.ret = normalizeVietnamese(call.arg)]

\* Utils.normalizeVietnamese called on what the call before returned
NormalizeAgain ==
    /\ call.fn = "normalizeVietnamese"
    /\ ~call.again
    /\ call' = [call EXCEPT !.arg = call.ret, !.again = TRUE, !.ret = normalizeVietnamese(call.ret)]

\* CSVHandler.search(data, query, [field]) on the values the field takes in
\* data: the positions of the matching items
search(values, query) ==
    IF query = <<>> \/ Len(query) < minQueryLength THEN {}
    ELSE LET normalizedQuery == normalizeVietnamese(query)
         IN  { i \in 1..Len(values) :
                 LET value == IF Truthy(values[i]) THEN toString(values[i]) ELSE <<>>
                 IN  includes(normalizeVietnamese(value), normalizedQuery) }

(***************************************************************************)
(* FilterManager                                                           *)
(***************************************************************************)
All == <<"a", "l", "l">>

\* the activeFilters of the constructor and of resetFilters
DefaultFilters ==
    [ category |-> All, tier |-> All, minPrice |-> Int2Num(0), maxPrice |-> Infinity,
      minDiscount |-> Int2Num(0), minRating |-> Int2Num(0), searchQuery |-> <<>> ]

Has(item, field) == field \in DOMAIN item

\* item[field], undefined when the record has no such field
Field(item, field) == IF Has(item, field) THEN item[field] ELSE Undefined

\* the callback of originalData.filter in applyFilters
passesFilters(item, f) ==
    /\ (f.category # All => item.category = f.category)
    /\ (f.tier # All => item.tier = f.tier)
    /\ (Has(item, "salePrice") => ~(NumLt(item.salePrice, f.minPrice) \/ NumGt(item.salePrice, f.maxPrice)))
    /\ (Has(item, "discount") => ~NumLt(item.discount, f.minDiscount))
    /\ (Has(item, "rating") => ~NumLt(parseFloat(item.rating), f.minRating))
    /\ (f.searchQuery # <<>> =>
          LET searchFields == IF Truthy(Field(item, "name")) THEN <<"name">>
                              ELSE IF Truthy(Field(item, "shopName")) THEN <<"shopName">> ELSE <<>>
          IN  searchFields # <<>> => search(<<item[searchFields[1]]>>, f.searchQuery) # {})

\* FilterManager.applyFilters: the new filteredData
applyFilters(data, filtered, f) ==
    IF Len(data) = 0 THEN filtered
    ELSE LET keep(item) == passesFilters(item, f) IN SelectSeq(data, keep)

\* the keys of the query string the filter manager reads and writes
ParamKeys == { "category", "tier", "minPrice", "maxPrice", "minDiscount", "search" }

\* no such key: in the query string, or in the params of updateURL
Unset == [t |-> "unset", s |-> <<>>, v |-> NaN]

\* window.location.search without parameters
NoQuery == [k \in ParamKeys |-> Unset]

\* if (params.key): the key is there with a non-empty value
HasParam(value) == value.t = "string" /\ value.s # <<>>

\* the escapes encodeURIComponent writes for the UTF-8 bytes of a character;
\* letters, digits and - are kept
Escaped(c) ==
    CASE c = " " -> <<"%", "2", "0">>
      [] c = "%" -> <<"%", "2", "5">>
      [] c = "a_acute" -> <<"%", "C", "3", "%", "A", "1">>
      [] c = "A_acute" -> <<"%", "C", "3", "%", "8", "1">>
      [] OTHER -> <<c>>

RECURSIVE encodeURIComponent(_)
encodeURIComponent(str) == IF str = <<>> THEN <<>> ELSE Escaped(Head(str)) \o encodeURIComponent(Tail(str))

\* the characters of this model that encodeURIComponent escapes
EscapedChars == { " ", "%", "a_acute", "A_acute" }

\* the length of the escape sequence at the head of str, 0 when a % starts
\* none
EscapeAt(str) ==
    IF \E c \in EscapedChars : Len(Escaped(c)) <= Len(str) /\ SubSeq(str, 1, Len(Escaped(c))) = Escaped(c)
    THEN Len(Escaped(CHOOSE c \in EscapedChars : Len(Escaped(c)) <= Len(str) /\ SubSeq(str, 1, Len(Escaped(c))) = Escaped(c)))
    ELSE 0

\* decodeURIComponent throws URIError on a % that starts no escape sequence
RECURSIVE MalformedURI(_)
MalformedURI(str) ==
    /\ str # <<>>
    /\ IF Head(str) = "%" THEN EscapeAt(str) = 0 \/ MalformedURI(SubSeq(str, EscapeAt(str) + 1, Len(str)))
       ELSE MalformedURI(Tail(str))

RECURSIVE decodeURIComponent(_)
decodeURIComponent(str) ==
    IF str = <<>> THEN <<>>
    ELSE IF Head(str) = "%" /\ EscapeAt(str) > 0
         THEN <<CHOOSE c \in EscapedChars : Escaped(c) = SubSeq(str, 1, EscapeAt(str))>> \o decodeURIComponent(SubSeq(str, EscapeAt(str) + 1, Len(str)))
         ELSE <<Head(str)>> \o decodeURIComponent(Tail(str))

\* FilterManager.initFromURL throws when decodeURIComponent does
initFromURLThrows(params) == HasParam(params["search"]) /\ MalformedURI(params["search"].s)

\* FilterManager.initFromURL: the activeFilters it leaves, params being
\* Utils.getQueryParams(); what was assigned before an exception stays
initFromURL(f, params) ==
    [ category |-> IF HasParam(params["category"]) THEN params["category"].s ELSE f.category,
      tier |-> IF HasParam(params["tier"]) THEN params["tier"].s ELSE f.tier,
      minPrice |-> IF HasParam(params["minPrice"]) THEN parseInt(params["minPrice"].s) ELSE f.minPrice,
      maxPrice |-> IF HasParam(params["maxPrice"]) THEN parseInt(params["maxPrice"].s) ELSE f.maxPrice,
      minDiscount |-> IF HasParam(params["minDiscount"]) THEN parseInt(params["minDiscount"].s) ELSE f.minDiscount,
      minRating |-> f.minRating,
      searchQuery |-> IF HasParam(params["search"]) /\ ~MalformedURI(params["search"].s) THEN decodeURIComponent(params["search"].s) ELSE f.searchQuery ]

\* the params FilterManager.updateURL builds
updateURL(f) ==
    [k \in ParamKeys |->
        CASE k = "category" -> IF f.category # All THEN Str(f.category) ELSE Unset
          [] k = "tier" -> IF f.tier # All THEN Str(f.tier) ELSE Unset
          [] k = "minPrice" -> IF NumGt(f.minPrice, Int2Num(0)) THEN Number(f.minPrice) ELSE Unset
          [] k = "maxPrice" -> IF NumLt(f.maxPrice, Infinity) THEN Number(f.maxPrice) ELSE Unset
          [] k = "minDiscount" -> IF NumGt(f.minDiscount, Int2Num(0)) THEN Number(f.minDiscount) ELSE Unset
          [] k = "search" -> IF f.searchQuery # <<>> THEN Str(encodeURIComponent(f.searchQuery)) ELSE Unset]

\* value === null || value === undefined || value === '' || value === 'all'
Deletes(value) == value.t = "undefined" \/ (value.t = "string" /\ value.s \in { <<>>, All })

\* Utils.updateQueryParams: the query string after the entries of params are
\* set or deleted; a key params does not hold is left as it is
updateQueryParams(query, params) ==
    [k \in ParamKeys |->
        IF params[k] = Unset THEN query[k]
        ELSE IF Deletes(params[k]) THEN Unset ELSE Str(toString(params[k]))]

\* a subscriber that throws whenever it is called
Throws(listener) == listener = "faulty"

\* forEach without the try: it is left at the first listener that throws
invokedUntilThrow(subscribed) ==
    IF \E k \in 1..Len(subscribed) : Throws(subscribed[k])
    THEN CHOOSE k \in 1..Len(subscribed) : Throws(subscribed[k]) /\ \A j \in 1..(k - 1) : ~Throws(subscribed[j])
    ELSE Len(subscribed)

\* this.listeners.forEach(listener => { try { listener(...) } catch ... }):
\* the number of listeners called
invoked(subscribed) == Len(subscribed)

\* an exception of a listener reaches the caller of notifyListeners: forEach
\* was left before the last listener
raised(subscribed) == invoked(subscribed) < Len(subscribed)

\* FilterManager.notifyListeners and SearchManager.notifyListeners: the
\* calls made, in order
notifyListeners(subscribed, data) == [k \in 1..invoked(subscribed) |-> [listener |-> subscribed[k], data |-> data]]

\* the listener is among the listeners called
Listens(subscribed, listener) == \E k \in 1..invoked(subscribed) : subscribed[k] = listener

\* nothing rendered yet
NoDisplay == [shown |-> "none", items |-> {}]

\* renderProductsGrid / renderShopsGrid: the records handed to the grid
rendered(shown, array) == [shown |-> shown, items |-> { array[k] : k \in 1..Len(array) }]

\* the listener the page subscribes to the filter manager:
\* () => this.onFilterChange(), which renders the filtered data
onFilterChange(subscribed, filtered, shown) ==
    IF Listens(subscribed, "onFilterChange") THEN rendered("filter", filtered) ELSE shown

\* the listener the page subscribes to the search manager:
\* () => this.onSearchChange(), which renders the records of the results
onSearchChange(subscribed, results, shown) ==
    IF Listens(subscribed, "onSearchChange") THEN rendered("search", [k \in 1..Len(results) |-> results[k].originalData]) ELSE shown

NoFilterCall == [op |-> "none", changed |-> FALSE, notified |-> <<>>, raised |-> FALSE]

\* FilterManager.setData
setData(data) ==
    /\ originalData' = data
    /\ filteredData' = applyFilters(data, filteredData, activeFilters)
    /\ filterCall' = [op |-> "setData", changed |-> FALSE, notified |-> <<>>, raised |-> FALSE]
    /\ UNCHANGED <<activeFilters, location, listeners, display>>

\* the common body of the setters (op "setter") and of resetFilters: store
\* the filters, then applyFilters, updateURL and notifyListeners
setFilters(op, f) ==
    /\ activeFilters' = f
    /\ filteredData' = applyFilters(originalData, filteredData, f)
    /\ location' = updateQueryParams(location, updateURL(f))
    /\ filterCall' = [op |-> op, changed |-> f # activeFilters, notified |-> notifyListeners(listeners, filteredData'), raised |-> raised(listeners)]
    /\ display' = onFilterChange(listeners, filteredData', display)
    /\ UNCHANGED <<originalData, listeners>>

FilterCategories == { All, <<"d", "i", "e", "n", "-", "t", "u">> }

FilterTiers == { All, <<"n", "1">> }

\* { min, max } of CONFIG.priceRanges
PriceRanges == { <<Int2Num(0), Infinity>>, <<Int2Num(100000), Int2Num(500000)>> }

\* min of CONFIG.discountThresholds
MinDiscounts == { Int2Num(0), Int2Num(20) }

MinRatings == { Int2Num(0), Num(9, 2) }

SearchQueries == { <<>>, <<"a">>, <<"A_acute", "O">> }

\* FilterManager.setCategory
SetCategory == \E category \in FilterCategories : setFilters("setter", [activeFilters EXCEPT !.category = category])

\* FilterManager.setTier
SetTier == \E tier \in FilterTiers : setFilters("setter", [activeFilters EXCEPT !.tier = tier])

\* FilterManager.setPriceRange
SetPriceRange == \E range \in PriceRanges : setFilters("setter", [activeFilters EXCEPT !.minPrice = range[1], !.maxPrice = range[2]])

\* FilterManager.setMinDiscount
SetMinDiscount == \E minDiscount \in MinDiscounts : setFilters("setter", [activeFilters EXCEPT !.minDiscount = minDiscount])

\* FilterManager.setSearchQuery
SetSearchQuery == \E query \in SearchQueries : setFilters("setter", [activeFilters EXCEPT !.searchQuery = query])

\* FilterManager.setMinRating
SetMinRating == \E rating \in MinRatings : setFilters("setter", [activeFilters EXCEPT !.minRating = rating])

\* FilterManager.resetFilters
ResetFilters == setFilters("resetFilters", DefaultFilters)

\* the longest array of raw records a page loads
MaxItems == 1

\* the raw records a page loads: those of RawShops and RawProducts with the
\* ids 1, 2 and 4
PageShops == { s \in RawShops : s.id \in { Str(<<"1">>), Str(<<"4">>) } }

PageProducts == { p \in RawProducts : p.id \in { Str(<<"1">>), Str(<<"2">>), Str(<<"4">>) } }

\* what init does with the filter manager once the data are loaded:
\* initFromURL(), setData(all) and, unless initFromURL threw,
\* renderInitialData() and subscribe(() => this.onFilterChange()); the
\* catch of init shows the error message
setupFilterManager(all) ==
    /\ activeFilters' = initFromURL(activeFilters, location)
    /\ IF initFromURLThrows(location)
       THEN /\ display' = rendered("error", <<>>)
            /\ UNCHANGED <<originalData, filteredData, listeners>>
       ELSE /\ originalData' = all
            /\ filteredData' = applyFilters(all, filteredData, activeFilters')
            /\ display' = rendered("filter", filteredData')
            /\ listeners' = Append(listeners, "onFilterChange")
    /\ filterCall' = [op |-> "init", changed |-> activeFilters' # activeFilters, notified |-> <<>>, raised |-> FALSE]
    /\ UNCHANGED location

\* ShopsApp.init: loadData processes the raw shops, then the filter manager
\* is set up; an exception ends init
InitShops ==
    /\ processed.kind = "none"
    /\ \E data \in SeqsUpTo(PageShops, MaxItems) :
         \E rnd \in ShopDrawSeqs(data) :
            /\ rawData' = data
            /\ processed' = processShopData(data, rnd)
            /\ track(processed')
            /\ IF processed'.status = "ok" THEN setupFilterManager(processed'.all)
               ELSE /\ display' = rendered("error", <<>>)
                    /\ UNCHANGED <<originalData, filteredData, activeFilters, pageVars>>

\* ProductsApp.init: loadData processes the raw products, then the filter
\* manager is set up; an exception ends init
InitProducts ==
    /\ processed.kind = "none"
    /\ \E data \in SeqsUpTo(PageProducts, MaxItems) :
         \E rnd \in ProductDrawSeqs(data) :
            /\ rawData' = data
            /\ processed' = processProductData(data, rnd)
            /\ track(processed')
            /\ IF processed'.status = "ok" THEN setupFilterManager(processed'.all)
               ELSE /\ display' = rendered("error", <<>>)
                    /\ UNCHANGED <<originalData, filteredData, activeFilters, pageVars>>

\* FilterManager.getAppliedFiltersCount
getAppliedFiltersCount(f) ==
    (IF f.category # All THEN 1 ELSE 0) + (IF f.tier # All THEN 1 ELSE 0)
    + (IF NumGt(f.minPrice, Int2Num(0)) THEN 1 ELSE 0) + (IF NumLt(f.maxPrice, Infinity) THEN 1 ELSE 0)
    + (IF NumGt(f.minDiscount, Int2Num(0)) THEN 1 ELSE 0) + (IF NumGt(f.minRating, Int2Num(0)) THEN 1 ELSE 0)
    + (IF f.searchQuery # <<>> THEN 1 ELSE 0)

\* FilterManager.getActiveFilters: the keys of the object it returns
getActiveFilters(f) ==
    (IF f.category # All THEN { "category" } ELSE {}) \cup (IF f.tier # All THEN { "tier" } ELSE {})
    \cup (IF NumGt(f.minPrice, Int2Num(0)) THEN { "minPrice" } ELSE {})
    \cup (IF NumLt(f.maxPrice, Infinity) THEN { "maxPrice" } ELSE {})
    \cup (IF NumGt(f.minDiscount, Int2Num(0)) THEN { "minDiscount" } ELSE {})
    \cup (IF f.searchQuery # <<>> THEN { "searchQuery" } ELSE {})

\* FilterManager.getStatistics
getStatistics(original, filtered, f) ==
    [ totalItems |-> Len(original), filteredItems |-> Len(filtered),
      appliedFilters |-> getAppliedFiltersCount(f), activeFilters |-> getActiveFilters(f) ]

\* the query strings a page is opened with: none, and a link that carries
\* filters
PageQueries ==
    { NoQuery,
      [NoQuery EXCEPT !["category"] = Str(<<"d", "i", "e", "n", "-", "t", "u">>), !["minDiscount"] = Str(<<"2", "0">>)] }

\* a call of setData with an empty array
SetDataEmpty == setData(<<>>)

(***************************************************************************)
(* Sorting: CSVHandler.sortProducts and CSVHandler.sortShops               *)
(***************************************************************************)
(* An array is [addr, items]: the object and what it holds.               *)
(***************************************************************************)
\* of two elements the comparator ties, the later one of the input comes first
tiesReversed(j, i) == j > i

\* of two elements the comparator ties, the earlier one of the input comes
\* first: Array.prototype.sort is stable
tiesInOrder(j, i) == j < i

\* the place Array.prototype.sort gives element i, keys[i] being what the
\* comparator reads of it: behind the elements the comparator puts before it
\* and behind the earlier elements it ties with
placeOf(keys, i, Less(_, _)) ==
    1 + Cardinality({j \in 1..Len(keys) : Less(keys[j], keys[i]) \/ (~Less(keys[i], keys[j]) /\ j # i /\ tiesInOrder(j, i))})

placesOf(keys, Less(_, _)) == [i \in 1..Len(keys) |-> placeOf(keys, i, Less)]

\* an array whose elements are computed once
evaluated(array) == array \o <<>>

\* the items, each at its place
arrange(items, places) == [k \in 1..Len(items) |-> items[CHOOSE i \in 1..Len(items) : places[i] = k]]

\* Array.prototype.sort(compare), Less(key(a), key(b)) standing for
\* compare(a, b) < 0
stableSort(items, keys, Less(_, _)) == arrange(items, evaluated(placesOf(evaluated(keys), Less)))

\* the collation elements of the locale 'vi' for the characters of the names
Letters == <<" ", "a", "b", "c", "d", "e", "f", "g", "h", "i", "j", "k", "l", "m", "n", "o", "p", "q", "r", "s", "t", "u", "v", "w", "x", "y", "z">>

PrimaryWeight(c) == CHOOSE k \in 1..Len(Letters) : Letters[k] = toLowerChar(c)

\* 0 for a tone mark, 2 for a letter that carries one, 1 for a bare letter
ToneWeights(d) == [i \in 1..Len(d) |-> IF IsCombining(d[i]) THEN 0 ELSE IF i < Len(d) /\ IsCombining(d[i + 1]) THEN 2 ELSE 1]

IsWeight(w) == w # 0

CaseWeight(c) == IF toLowerChar(c) = c THEN 1 ELSE 2

\* the sort key of a decomposed string d with the letters bases: base
\* letters first, then tone marks, then case
KeyOfDecomposed(d, bases) ==
    [i \in 1..Len(bases) |-> PrimaryWeight(bases[i])] \o <<0>> \o SelectSeq(ToneWeights(d), IsWeight)
    \o <<0>> \o [i \in 1..Len(bases) |-> CaseWeight(bases[i])]

CollationKey(s) == KeyOfDecomposed(NFD(s), SelectSeq(NFD(s), NotCombining))

RECURSIVE LexLess(_, _)
LexLess(a, b) ==
    IF b = <<>> THEN FALSE
    ELSE IF a = <<>> THEN TRUE
    ELSE IF a[1] # b[1] THEN a[1] < b[1]
    ELSE LexLess(Tail(a), Tail(b))

\* a.localeCompare(b, 'vi') < 0 and > 0, on the sort keys of a and b
localeCompareLess(a, b) == LexLess(a, b)

localeCompareMore(a, b) == LexLess(b, a)

\* const sorted = products in the place of [...products]
alias(array, free) == array

\* const sorted = [...products]: a new array with the same elements
spread(array, free) == [addr |-> free, items |-> array.items]

\* sorted.sort(compare): sorts the array in place and returns it
sortArray(array, keys, Less(_, _)) == [array EXCEPT !.items = stableSort(@, keys, Less)]

\* what the comparators read of each element
salePrices(items) == [i \in 1..Len(items) |-> items[i].salePrice]

discounts(items) == [i \in 1..Len(items) |-> items[i].discount]

soldCounts(items) == [i \in 1..Len(items) |-> items[i].soldCount]

parsedRatings(items) == [i \in 1..Len(items) |-> parseFloat(items[i].rating)]

ratings(items) == [i \in 1..Len(items) |-> items[i].rating.v]

names(items) == [i \in 1..Len(items) |-> CollationKey(items[i].name.s)]

\* CSVHandler.sortProducts: the array it returns
sortProducts(products, sortBy, free) ==
    CASE sortBy = "price-asc" -> sortArray(spread(products, free), salePrices(products.items), NumLt)
      [] sortBy = "price-desc" -> sortArray(spread(products, free), salePrices(products.items), NumGt)
      [] sortBy = "discount-desc" -> sortArray(spread(products, free), discounts(products.items), NumGt)
      [] sortBy = "sold-desc" -> sortArray(spread(products, free), soldCounts(products.items), NumGt)
      [] sortBy = "rating-desc" -> sortArray(spread(products, free), parsedRatings(products.items), NumGt)
      [] sortBy = "name-asc" -> sortArray(spread(products, free), names(products.items), localeCompareLess)
      [] sortBy = "name-desc" -> sortArray(spread(products, free), names(products.items), localeCompareMore)
      [] OTHER -> spread(products, free)

\* CSVHandler.sortShops: the array it returns
sortShops(shops, sortBy, free) ==
    CASE sortBy = "rating-desc" -> sortArray(spread(shops, free), ratings(shops.items), NumGt)
      [] sortBy = "rating-asc" -> sortArray(spread(shops, free), ratings(shops.items), NumLt)
      [] sortBy = "name-asc" -> sortArray(spread(shops, free), names(shops.items), localeCompareLess)
      [] sortBy = "name-desc" -> sortArray(spread(shops, free), names(shops.items), localeCompareMore)
      [] OTHER -> spread(shops, free)

\* the longest array sorted
MaxSort == 3

\* canonical products with ties under every key: the two records without an
\* id agree in everything but id and rating
SortableProducts ==
    { normalizeProductData(p, <<>>, <<"4", ".", "7">>) : p \in { q \in RawProducts : q.id \in { Str(<<"1">>), Str(<<"4">>) } } }
    \cup { normalizeProductData(p, <<>>, <<"4", ".", "0">>) : p \in { q \in RawProducts : q.id = Str(<<"2">>) } }
    \cup { normalizeProductData(p, <<"a", "B", "3">>, <<"4", ".", "0">>) : p \in { q \in RawProducts : q.id = Undefined } }
    \cup { normalizeProductData(p, <<"Z", "9", "x">>, <<"4", ".", "7">>) : p \in { q \in RawProducts : q.id = Undefined } }

SortableShops ==
    { normalizeShopData(p, <<>>) : p \in { q \in RawShops : q.id \in { Str(<<"1">>), Str(<<"2">>), Str(<<"4">>) } } }
    \cup { normalizeShopData(p, id) : p \in { q \in RawShops : q.id = Undefined }, id \in GeneratedIds }

\* the sort keys of the pages, and one no page offers
SortKeys == { "price-asc", "price-desc", "discount-desc", "sold-desc", "rating-desc", "rating-asc", "name-asc", "name-desc", "newest" }

NoSort == [ fn |-> "none", sortBy |-> "", given |-> 0, items |-> <<>>, after |-> <<>>, result |-> [addr |-> 0, items |-> <<>>] ]

\* what a sort call leaves: the array given (its address, its items before
\* and after the call) and the array returned
sortOutcome(fn, sortBy, array, result) ==
    [ fn |-> fn, sortBy |-> sortBy, given |-> array.addr, items |-> array.items,
      after |-> IF result.addr = array.addr THEN result.items ELSE array.items, result |-> result ]

\* the first call of sortProducts, on an array at address 1, address 2 being unused
SortProducts ==
    /\ sortCall.fn = "none"
    /\ \E items \in SeqsUpTo(SortableProducts, MaxSort), sortBy \in SortKeys :
         sortCall' = sortOutcome("sortProducts", sortBy, [addr |-> 1, items |-> items],
                                 sortProducts([addr |-> 1, items |-> items], sortBy, 2))

\* the first call of sortShops, on an array at address 1, address 2 being unused
SortShops ==
    /\ sortCall.fn = "none"
    /\ \E items \in SeqsUpTo(SortableShops, MaxSort), sortBy \in SortKeys :
         sortCall' = sortOutcome("sortShops", sortBy, [addr |-> 1, items |-> items],
                                 sortShops([addr |-> 1, items |-> items], sortBy, 2))

(***************************************************************************)
(* SearchManager (src/js/search.js)                                        *)
(*                                                                         *)
(* The indexed data are canonical records whose fields are strings.  The   *)
(* browser's store is available (ENV.supportsLocalStorage) and holds,      *)
(* under the key of the recent searches, a JSON text or nothing; it may    *)
(* reject a write (localStorage.setItem throws when the quota is used up), *)
(* which Utils.setStorage catches and logs.                                *)
(***************************************************************************)
\* CONFIG.search.maxResults
maxResults == 50

\* the recent searches kept: slice(0, 10)
maxRecent == 10

\* the calls made on a search manager after its index is built
MaxSearches == 2

startsWith(s, q) == Len(q) <= Len(s) /\ SubSeq(s, 1, Len(q)) = q

\* Array.prototype.slice(0, n)
slice(array, n) == SubSeq(array, 1, IF Len(array) < n THEN Len(array) ELSE n)

\* Array.prototype.join(' ') on strings
RECURSIVE join(_)
join(fields) ==
    IF fields = <<>> THEN <<>>
    ELSE IF Len(fields) = 1 THEN fields[1] ELSE fields[1] \o <<" ">> \o join(Tail(fields))

\* the places of s that hold a space
Blanks(str) == LET blank(i) == str[i] = " " IN SelectSeq(Indices(Len(str)), blank)

\* the pieces of s between the places blanks, the first one starting at from
RECURSIVE pieces(_, _, _)
pieces(s, blanks, from) ==
    IF blanks = <<>> THEN <<SubSeq(s, from, Len(s))>>
    ELSE <<SubSeq(s, from, Head(blanks) - 1)>> \o pieces(s, Tail(blanks), Head(blanks) + 1)

\* String.prototype.split(' ')
split(s) == pieces(s, Blanks(s), 1)

\* Utils.normalizeVietnamese on a field of a record
normalizeField(field) == IF Truthy(field) THEN normalizeVietnamese(field.s) ELSE <<>>

\* the fields a record is searched by; its category is a string
searchFields(item, type) ==
    IF type = "products" THEN <<item.name, Str(item.category), item.shopName>> ELSE <<item.name, Str(item.category), item.type>>

normalizeFields(fields) == [k \in 1..Len(fields) |-> normalizeField(fields[k])]

\* the callback of data.map in SearchManager.buildSearchIndex
indexEntry(item, type) ==
    [ id |-> item.id, type |-> type, name |-> item.name, category |-> item.category,
      normalizedName |-> normalizeField(item.name),
      normalizedCategory |-> normalizeField(Str(item.category)),
      originalData |-> item,
      searchText |-> join(normalizeFields(SelectSeq(searchFields(item, type), Truthy))) ]

\* SearchManager.buildSearchIndex
buildSearchIndex(data, type) == [i \in 1..Len(data) |-> indexEntry(data[i], type)]

\* words.filter(word => word.startsWith(query)).length
matchedWords(words, query) == LET starts(word) == startsWith(word, query) IN Len(SelectSeq(words, starts))

\* SearchManager.calculateSearchScore
calculateSearchScore(query, item) ==
    (IF item.normalizedName = query THEN 100 ELSE 0)
    + (IF startsWith(item.normalizedName, query) THEN 50 ELSE 0)
    + (IF includes(item.normalizedName, query) THEN 30 ELSE 0)
    + (IF includes(item.searchText, query) THEN 15 ELSE 0)
    + matchedWords(split(item.searchText), query) * 10

scoresOf(index, query) == [i \in 1..Len(index) |-> calculateSearchScore(query, index[i])]

\* a comparator that puts the lower score first
Lower(a, b) == a < b

\* (a, b) => b.score - a.score is negative
Higher(a, b) == a > b

\* the entries of index at the places of positive score, best first:
\* .filter(item => item.score > 0).sort((a, b) => b.score - a.score)
\*  .slice(0, CONFIG.search.maxResults), the score dropped again
ranked(index, scores, positive) ==
    slice(stableSort([k \in 1..Len(positive) |-> index[positive[k]]], [k \in 1..Len(positive) |-> scores[positive[k]]], Higher), maxResults)

scoredResults(index, scores) == LET scored(i) == scores[i] > 0 IN ranked(index, scores, SelectSeq(Indices(Len(index)), scored))

\* if (!query || query.length < CONFIG.search.minQueryLength)
TooShort(query) == query = <<>> \/ Len(query) < minQueryLength

\* the recent searches for any query
allSearches(recentSearches, query) == recentSearches

\* the recent searches for other queries: filter(s => s.query !== query)
otherSearches(recentSearches, query) == LET other(entry) == entry.query # query IN SelectSeq(recentSearches, other)

\* SearchManager.addToRecentSearches, time being Date.now()
addToRecentSearches(recentSearches, query, time) ==
    IF TooShort(query) THEN recentSearches
    ELSE slice(<<[query |-> query, timestamp |-> time]>> \o otherSearches(recentSearches, query), maxRecent)

\* localStorage.getItem of a key never set
NoItem == <<>>

\* JSON.stringify and JSON.parse on a list of recent searches
stringify(value) == <<"json", value>>

parse(item) == item[2]

\* Utils.setStorage: the item stored afterwards, accepted telling whether
\* localStorage.setItem took the write or threw
setStorage(item, value, accepted) == IF accepted THEN stringify(value) ELSE item

\* Utils.getStorage: null unless an item is stored
getStorage(item) == IF item = NoItem THEN [isArray |-> FALSE, value |-> <<>>] ELSE [isArray |-> TRUE, value |-> parse(item)]

\* SearchManager.loadRecentSearches in the constructor
loadRecentSearches(item) == IF getStorage(item).isArray THEN getStorage(item).value ELSE <<>>

\* the texts typed into the search box
SearchTexts ==
    { <<>>, <<"a">>, <<"a", "o">>, <<"A_acute", "o">>, <<"o", " ", "b">>, <<"t", "h">>, <<" ", " ">>, <<"q", "5">> }

\* the recent searches a page shows and lets the user remove
RemovableTexts == { <<"a", "o">>, <<"q", "5">> }

\* what earlier visits left in the store: nothing, two searches of the same
\* millisecond, ten searches
TwoSearches == <<[query |-> <<"a", "o">>, timestamp |-> 2], [query |-> <<"q", "5">>, timestamp |-> 2]>>

TenSearches == [k \in 1..maxRecent |-> [query |-> <<"q">> \o NatToString(k - 1), timestamp |-> maxRecent - k]]

StoredItems == { NoItem, stringify(<<>>), stringify(TwoSearches), stringify(TenSearches) }

\* the product of RawProducts and the shop of RawShops with the string id
ProductRow(id) == CHOOSE p \in RawProducts : p.id = Str(id)

ShopRow(id) == CHOOSE p \in RawShops : p.id = Str(id)

\* productsData.all and shopsData.all of the pages
SearchableProducts ==
    <<normalizeProductData(ProductRow(<<"2">>), <<>>, <<"4", ".", "0">>), normalizeProductData(ProductRow(<<"1">>), <<>>, <<"4", ".", "7">>),
      normalizeProductData(ProductRow(<<"4">>), <<>>, <<"4", ".", "7">>)>>

SearchableShops == <<normalizeShopData(ShopRow(<<"4">>), <<>>), normalizeShopData(ShopRow(<<"1">>), <<>>)>>

\* more products than a search returns, with two names in turn
ManyProducts ==
    [i \in 1..(maxResults + 2) |->
        [normalizeProductData(ProductRow(IF i % 2 = 1 THEN <<"2">> ELSE <<"1">>), <<>>, <<"4", ".", "0">>) EXCEPT !.id = Str(NatToString(i))]]

SearchData ==
    { [type |-> "products", data |-> SearchableProducts], [type |-> "shops", data |-> SearchableShops],
      [type |-> "products", data |-> ManyProducts] }

NoSearch == [op |-> "none", query |-> <<>>, result |-> <<>>, wrote |-> "nothing", n |-> 0, notified |-> <<>>, raised |-> FALSE]

\* a call on the search manager, the n-th after construction, and what
\* became of its write to the store
searchDone(op, query, result, wrote) ==
    [op |-> op, query |-> query, result |-> result, wrote |-> wrote, n |-> searchCall.n + 1, notified |-> <<>>, raised |-> FALSE]

\* this.notifyListeners() in a method of the search manager that leaves the
\* results searchResults
notifying(done, searchResults) ==
    /\ searchCall' = [done EXCEPT !.notified = notifyListeners(searchListeners, searchResults), !.raised = raised(searchListeners)]
    /\ display' = onSearchChange(searchListeners, searchResults, display)

Outcome(accepted) == IF accepted THEN "accepted" ELSE "rejected"

SearchReady == searchCall.op \notin { "none", "new" } /\ searchCall.n <= MaxSearches

\* no search manager yet
NoSearchManager ==
    /\ searchManager = [ searchIndex |-> <<>>, searchResults |-> <<>>, recentSearches |-> <<>>, isSearching |-> FALSE ]
    /\ localStorage = NoItem
    /\ now = maxRecent
    /\ searchCall = NoSearch
    /\ searchListeners = <<>>

\* new SearchManager(): the constructor loads the recent searches
NewSearchManager ==
    /\ localStorage \in StoredItems
    /\ searchManager = [ searchIndex |-> <<>>, searchResults |-> <<>>, recentSearches |-> loadRecentSearches(localStorage), isSearching |-> FALSE ]
    /\ now = maxRecent
    /\ searchCall = [NoSearch EXCEPT !.op = "new"]
    /\ searchListeners = <<>>

\* SearchManager.initSearch(data, type), the first call of a page
InitSearch ==
    /\ searchCall.op = "new"
    /\ \E d \in SearchData : searchManager' = [searchManager EXCEPT !.searchIndex = buildSearchIndex(d.data, d.type)]
    /\ searchCall' = searchDone("initSearch", <<>>, <<>>, "nothing")
    /\ UNCHANGED <<localStorage, now, searchListeners, display>>

\* what performSearch(query) leaves of the search manager, results being
\* its scoredResults
searched(query, results, time) ==
    [searchManager EXCEPT !.searchResults = results, !.recentSearches = addToRecentSearches(@, query, time)]

\* SearchManager.performSearch(query), a millisecond after the last
\* search; accepted tells whether the store takes the write
performSearch(query, accepted) ==
    /\ now' = now + 1
    /\ IF TooShort(query)
       THEN /\ searchManager' = [searchManager EXCEPT !.searchResults = <<>>]
            /\ notifying(searchDone("performSearch", query, <<>>, "nothing"), <<>>)
            /\ UNCHANGED localStorage
       ELSE \E normalizedQuery \in { normalizeVietnamese(query) } :
            \E scores \in { evaluated(scoresOf(searchManager.searchIndex, normalizedQuery)) } :
            \E results \in { scoredResults(searchManager.searchIndex, scores) } :
                /\ searchManager' = searched(query, results, now')
                /\ notifying(searchDone("performSearch", query, results, Outcome(accepted)), results)
                /\ localStorage' = setStorage(localStorage, searchManager'.recentSearches, accepted)
    /\ UNCHANGED searchListeners

\* a call of performSearch with one of the texts
PerformSearch ==
    /\ SearchReady
    /\ \E query \in SearchTexts, accepted \in BOOLEAN : performSearch(query, accepted)

\* SearchManager.clearRecentSearches; localStorage.removeItem frees space
\* and is taken
ClearRecentSearches ==
    /\ SearchReady
    /\ searchManager' = [searchManager EXCEPT !.recentSearches = <<>>]
    /\ localStorage' = NoItem
    /\ notifying(searchDone("clearRecentSearches", <<>>, <<>>, "accepted"), searchManager.searchResults)
    /\ UNCHANGED <<now, searchListeners>>

\* SearchManager.removeRecentSearch(query)
RemoveRecentSearch ==
    /\ SearchReady
    /\ \E query \in RemovableTexts, accepted \in BOOLEAN :
         /\ searchManager' = [searchManager EXCEPT !.recentSearches = otherSearches(@, query)]
         /\ notifying(searchDone("removeRecentSearch", query, <<>>, Outcome(accepted)), searchManager.searchResults)
         /\ localStorage' = setStorage(localStorage, searchManager'.recentSearches, accepted)
    /\ UNCHANGED <<now, searchListeners>>

\* SearchManager.clearResults
clearResults ==
    /\ searchManager' = [searchManager EXCEPT !.searchResults = <<>>]
    /\ notifying(searchDone("clearResults", <<>>, <<>>, "nothing"), <<>>)
    /\ UNCHANGED <<localStorage, now, searchListeners>>

(***************************************************************************)
(* Subscriptions                                                           *)
(***************************************************************************)
\* the subscriptions a manager takes
MaxListeners == 2

\* the callbacks subscribed: those of the pages and one that throws
FilterCallbacks == { "onFilterChange", "faulty" }

SearchCallbacks == { "onSearchChange", "faulty" }

\* FilterManager.subscribe(callback)
SubscribeFilter ==
    /\ Len(listeners) < MaxListeners
    /\ \E callback \in FilterCallbacks : listeners' = Append(listeners, callback)
    /\ filterCall' = [NoFilterCall EXCEPT !.op = "subscribe"]
    /\ UNCHANGED <<originalData, filteredData, activeFilters, location, display>>

\* SearchManager.subscribe(callback)
SubscribeSearch ==
    /\ Len(searchListeners) < MaxListeners
    /\ \E callback \in SearchCallbacks : searchListeners' = Append(searchListeners, callback)
    /\ searchCall' = [NoSearch EXCEPT !.op = "subscribe", !.n = searchCall.n]
    /\ UNCHANGED <<searchManager, localStorage, now, display>>

\* a call of SearchManager.clearResults
ClearResults ==
    /\ searchCall.op # "none"
    /\ searchCall.n <= MaxSearches
    /\ clearResults

(***************************************************************************)
(* The search box of a page: Utils.debounce and the input listener         *)
(***************************************************************************)
(* A timer is [id, remaining, args]: the id setTimeout returned, the time   *)
(* until it is due and the arguments of the debounced call.  burst is the  *)
(* record of the debounced search: the timers set so far, the input events *)
(* so far, the calls since performSearch last ran, the runs of             *)
(* performSearch since the last call, the query of the last call, the time *)
(* since it (no more than debounceDelay is counted) and what the last run  *)
(* found of these.                                                         *)
(***************************************************************************)
\* CONFIG.search.debounceDelay, in milliseconds
debounceDelay == 300

\* the time that passes between two looks at the clock, in milliseconds
ClockStep == 100

\* the input events of a page session
MaxInputs == 3

NoRun == [query |-> <<>>, since |-> 0, calls |-> 0]

NoBurst == [set |-> 0, inputs |-> 0, calls |-> 0, runs |-> 0, query |-> <<>>, since |-> 0, ran |-> NoRun]

\* clearTimeout that cancels nothing
kept(pending, id) == pending

\* clearTimeout(id): the timer is cancelled
clearTimeout(pending, id) == { timer \in pending : timer.id # id }

\* setTimeout(later, wait) for a call with the arguments args
setTimeout(pending, id, wait, args) == pending \cup { [id |-> id, remaining |-> wait, args |-> args] }

\* executedFunction(...args) of Utils.debounce(performSearch, debounceDelay),
\* called through searchManager.search(query)
debouncedSearch(query) ==
    /\ timers' = setTimeout(clearTimeout(timers, timeout), burst.set + 1, debounceDelay, query)
    /\ timeout' = burst.set + 1
    /\ burst' = [burst EXCEPT !.set = @ + 1, !.inputs = @ + 1, !.calls = @ + 1, !.runs = 0, !.query = query, !.since = 0]

\* the texts typed into the search box of the page
BoxTexts == { <<>>, <<"a">>, <<"a", "o">>, <<"t", "h">> }

\* the input listener of setupSearch, the value of the input being value
InputSearch ==
    /\ burst.inputs < MaxInputs
    /\ \E value \in BoxTexts \ { input } :
         /\ input' = value
         /\ IF Len(value) >= minQueryLength
            THEN /\ debouncedSearch(value)
                 /\ UNCHANGED <<searchVars, display>>
            ELSE IF Len(value) = 0
            THEN \* searchManager.clearResults(); this.renderInitialData()
                 /\ searchManager' = [searchManager EXCEPT !.searchResults = <<>>]
                 /\ searchCall' = [searchDone("clearResults", <<>>, <<>>, "nothing") EXCEPT !.notified = notifyListeners(searchListeners, <<>>), !.raised = raised(searchListeners)]
                 /\ display' = rendered("filter", filteredData)
                 /\ burst' = [burst EXCEPT !.inputs = @ + 1]
                 /\ UNCHANGED <<localStorage, now, searchListeners, timers, timeout>>
            ELSE /\ burst' = [burst EXCEPT !.inputs = @ + 1]
                 /\ UNCHANGED <<searchVars, display, timers, timeout>>

\* later() of Utils.debounce, run by the event loop when its timer is due:
\* clearTimeout(timeout); func(...args)
TimerFires ==
    \E timer \in timers, accepted \in BOOLEAN :
        /\ timer.remaining = 0
        /\ timers' = clearTimeout(timers \ { timer }, timeout)
        /\ performSearch(timer.args, accepted)
        /\ burst' = [burst EXCEPT !.calls = 0, !.runs = @ + 1, !.ran = [query |-> timer.args, since |-> burst.since, calls |-> burst.calls]]
        /\ UNCHANGED <<timeout, input>>

\* time passes while a timer is set
Tick ==
    /\ timers # {}
    /\ timers' = { [timer EXCEPT !.remaining = IF @ > ClockStep THEN @ - ClockStep ELSE 0] : timer \in timers }
    /\ burst' = [burst EXCEPT !.since = IF @ + ClockStep < debounceDelay THEN @ + ClockStep ELSE debounceDelay]
    /\ UNCHANGED <<timeout, input>>

\* the products page after ProductsApp.init: the data are handed to the
\* filter manager and indexed, the filtered data are rendered and the page
\* listens to both managers
ProductsPage ==
    /\ originalData = SearchableProducts
    /\ activeFilters = DefaultFilters
    /\ filteredData = applyFilters(SearchableProducts, <<>>, DefaultFilters)
    /\ location = NoQuery
    /\ listeners = <<"onFilterChange">>
    /\ filterCall = [NoFilterCall EXCEPT !.op = "init"]
    /\ display = rendered("filter", filteredData)
    /\ searchManager = [ searchIndex |-> buildSearchIndex(SearchableProducts, "products"), searchResults |-> <<>>, recentSearches |-> <<>>, isSearching |-> FALSE ]
    /\ localStorage = NoItem
    /\ now = maxRecent
    /\ searchCall = [NoSearch EXCEPT !.op = "initSearch", !.n = 1]
    /\ searchListeners = <<"onSearchChange">>

(***************************************************************************)
(* CSVHandler.loadCSV and the init of the pages                            *)
(*                                                                         *)
(* A parsed row is "row", or "" for a row without a value in any column.   *)
(* A request is a Papa.parse the handler started and whose complete or     *)
(* error callback has not run; id numbers the loadCSV calls.               *)
(***************************************************************************)
\* CONFIG.api.endpoints
Sources == { "data/shops.csv", "data/products.csv" }

\* the files a page loads, in the order of its loadCSV calls
SourcesOf(page) ==
    CASE page = "main" -> <<"data/shops.csv", "data/products.csv">>
      [] page = "shops" -> <<"data/shops.csv">>
      [] page = "products" -> <<"data/products.csv">>

Pages == { "main", "shops", "products" }

\* the loadCSV calls of a page session
MaxLoads == 3

\* this.cache.has(filePath) is false
NotCached == [has |-> FALSE, rows |-> <<>>]

NoApp == [page |-> "none", state |-> "new", awaits |-> {}]

NoLoadCall == [op |-> "none", n |-> 0, calls |-> <<>>, source |-> "", errors |-> 0, stored |-> FALSE, rejected |-> FALSE, awaited |-> FALSE]

\* what Papa.parse hands to complete: the rows and the number of errors
ParseResults == [ data : { <<>>, <<"row">>, <<"row", "">> }, errors : { 0, 1 } ]

\* CSVHandler.cleanData: the rows without a value are removed
cleanData(data) == LET valued(row) == row # "" IN SelectSeq(data, valued)

\* the handler as loadCSV finds and leaves it: the cache, isLoading, the
\* requests in flight and the calls made so far
Handler == [cache |-> cache, isLoading |-> isLoading, requests |-> requests, calls |-> <<>>, n |-> loadCall.n]

\* CSVHandler.loadCSV(filePath) up to the promise it returns: the cached
\* rows, or isLoading set and a request started
loadCSV(h, filePath) ==
    IF h.cache[filePath].has
    THEN [h EXCEPT !.n = @ + 1,
                   !.calls = Append(@, [source |-> filePath, id |-> h.n + 1, cached |-> TRUE, fetch |-> FALSE, before |-> h.isLoading, after |-> h.isLoading])]
    ELSE [h EXCEPT !.n = @ + 1, !.isLoading = TRUE,
                   !.requests = @ \cup { [id |-> h.n + 1, source |-> filePath] },
                   !.calls = Append(@, [source |-> filePath, id |-> h.n + 1, cached |-> FALSE, fetch |-> TRUE, before |-> h.isLoading, after |-> TRUE])]

\* the loadCSV calls of loadData, one after the other
RECURSIVE loadAll(_, _)
loadAll(h, files) == IF files = <<>> THEN h ELSE loadAll(loadCSV(h, Head(files)), Tail(files))

\* the handler after calls of loadCSV
called(h) ==
    /\ cache' = h.cache
    /\ isLoading' = h.isLoading
    /\ requests' = h.requests
    /\ loadCall' = [NoLoadCall EXCEPT !.op = "loadCSV", !.n = h.n, !.calls = h.calls]

\* the ids of the calls that started a request
Fetching(calls) == { calls[k].id : k \in { j \in 1..Len(calls) : calls[j].fetch } }

\* init of a page up to the await of loadData: the loadCSV calls are made;
\* when every file is cached init goes on to the end
OpenPage ==
    /\ app = NoApp
    /\ \E page \in Pages :
         /\ called(loadAll(Handler, SourcesOf(page)))
         /\ app' = [page |-> page, awaits |-> Fetching(loadCall'.calls),
                    state |-> IF Fetching(loadCall'.calls) = {} THEN "initialized" ELSE "loading"]

\* a loadCSV call made by another component of the page
LoadAgain ==
    /\ loadCall.n < MaxLoads
    /\ \E filePath \in Sources : called(loadCSV(Handler, filePath))
    /\ UNCHANGED app

\* the promise of a request is fulfilled: an init that awaits it goes on
\* once it awaits nothing else
fulfilled(id) ==
    IF app.state = "loading" /\ id \in app.awaits
    THEN [app EXCEPT !.awaits = @ \ { id }, !.state = IF app.awaits = { id } THEN "initialized" ELSE "loading"]
    ELSE app

\* the promise of a request is rejected: the catch of an init that awaits
\* it shows the error message
rejected(id) ==
    IF app.state = "loading" /\ id \in app.awaits THEN [app EXCEPT !.awaits = {}, !.state = "error"] ELSE app

\* the complete callback of a request
Complete ==
    \E request \in requests, results \in ParseResults :
        /\ isLoading' = FALSE
        /\ cache' = [cache EXCEPT ![request.source] = [has |-> TRUE, rows |-> cleanData(results.data)]]
        /\ requests' = requests \ { request }
        /\ app' = fulfilled(request.id)
        /\ loadCall' = [NoLoadCall EXCEPT !.op = "complete", !.n = loadCall.n, !.source = request.source, !.errors = results.errors,
                                          !.stored = TRUE, !.rejected = FALSE, !.awaited = app' # app]

\* the error callback of a request: the download failed
Fail ==
    \E request \in requests :
        /\ isLoading' = FALSE
        /\ requests' = requests \ { request }
        /\ app' = rejected(request.id)
        /\ loadCall' = [NoLoadCall EXCEPT !.op = "error", !.n = loadCall.n, !.source = request.source,
                                          !.stored = FALSE, !.rejected = TRUE, !.awaited = app' # app]
        /\ UNCHANGED cache

(***************************************************************************)
(* Specifications                                                          *)
(***************************************************************************)
\* no page opened: no query string, no subscriber, no call, nothing shown
NoPage ==
    /\ location = NoQuery
    /\ listeners = <<>>
    /\ filterCall = NoFilterCall
    /\ display = NoDisplay

\* no timer set and nothing typed
NoSearchBox ==
    /\ timers = {}
    /\ timeout = 0
    /\ input = <<>>
    /\ burst = NoBurst

\* new CSVHandler(), no page loading
NoLoad ==
    /\ cache = [source \in Sources |-> NotCached]
    /\ isLoading = FALSE
    /\ requests = {}
    /\ app = NoApp
    /\ loadCall = NoLoadCall

\* the state after the constructors of CSVHandler and FilterManager
Init ==
    /\ call = NoCall
    /\ rawData = <<>>
    /\ processed = NoCollection
    /\ heap = 0
    /\ returned = <<>>
    /\ originalData = <<>>
    /\ filteredData = <<>>
    /\ activeFilters = DefaultFilters
    /\ sortCall = NoSort
    /\ NoSearchManager
    /\ NoPage
    /\ NoSearchBox
    /\ NoLoad

\* the filter manager of a page
Next ==
    \/ InitShops /\ UNCHANGED <<call, sortCall, searchVars, boxVars, loadVars>>
    \/ InitProducts /\ UNCHANGED <<call, sortCall, searchVars, boxVars, loadVars>>
    \/ SetDataEmpty /\ UNCHANGED <<call, rawData, processed, heap, returned, sortCall, searchVars, boxVars, loadVars>>
    \/ SetCategory /\ UNCHANGED <<call, rawData, processed, heap, returned, sortCall, searchVars, boxVars, loadVars>>
    \/ SetTier /\ UNCHANGED <<call, rawData, processed, heap, returned, sortCall, searchVars, boxVars, loadVars>>
    \/ SetPriceRange /\ UNCHANGED <<call, rawData, processed, heap, returned, sortCall, searchVars, boxVars, loadVars>>
    \/ SetMinDiscount /\ UNCHANGED <<call, rawData, processed, heap, returned, sortCall, searchVars, boxVars, loadVars>>
    \/ SetSearchQuery /\ UNCHANGED <<call, rawData, processed, heap, returned, sortCall, searchVars, boxVars, loadVars>>
    \/ SetMinRating /\ UNCHANGED <<call, rawData, processed, heap, returned, sortCall, searchVars, boxVars, loadVars>>
    \/ ResetFilters /\ UNCHANGED <<call, rawData, processed, heap, returned, sortCall, searchVars, boxVars, loadVars>>

\* a page opened with one of the query strings
InitPage ==
    /\ call = NoCall
    /\ rawData = <<>>
    /\ processed = NoCollection
    /\ heap = 0
    /\ returned = <<>>
    /\ originalData = <<>>
    /\ filteredData = <<>>
    /\ activeFilters = DefaultFilters
    /\ sortCall = NoSort
    /\ NoSearchManager
    /\ location \in PageQueries
    /\ listeners = <<>>
    /\ filterCall = NoFilterCall
    /\ display = NoDisplay
    /\ NoSearchBox
    /\ NoLoad

Spec == InitPage /\ [][Next]_vars

\* the field normalizers, each called on every raw field of its input set
NextNormalizer ==
    \/ ParsePrice /\ UNCHANGED <<rawData, processed, heap, returned, originalData, filteredData, activeFilters, sortCall, searchVars, pageVars, display, boxVars, loadVars>>
    \/ ParseSoldCount /\ UNCHANGED <<rawData, processed, heap, returned, originalData, filteredData, activeFilters, sortCall, searchVars, pageVars, display, boxVars, loadVars>>
    \/ ParseRatingCount /\ UNCHANGED <<rawData, processed, heap, returned, originalData, filteredData, activeFilters, sortCall, searchVars, pageVars, display, boxVars, loadVars>>
    \/ ParseFollowerCount /\ UNCHANGED <<rawData, processed, heap, returned, originalData, filteredData, activeFilters, sortCall, searchVars, pageVars, display, boxVars, loadVars>>
    \/ ParseRating /\ UNCHANGED <<rawData, processed, heap, returned, originalData, filteredData, activeFilters, sortCall, searchVars, pageVars, display, boxVars, loadVars>>
    \/ CalculateDiscount /\ UNCHANGED <<rawData, processed, heap, returned, originalData, filteredData, activeFilters, sortCall, searchVars, pageVars, display, boxVars, loadVars>>

SpecNormalizer == Init /\ [][NextNormalizer]_vars

\* the record processor, called once on an array of raw records
InitProcessor ==
    /\ call = NoCall
    /\ rawData \in SeqsUpTo(RawShops, MaxData) \cup SeqsUpTo(RawProducts, MaxData)
    /\ processed = NoCollection
    /\ heap = 0
    /\ returned = <<>>
    /\ originalData = <<>>
    /\ filteredData = <<>>
    /\ activeFilters = DefaultFilters
    /\ sortCall = NoSort
    /\ NoSearchManager
    /\ NoPage
    /\ NoSearchBox
    /\ NoLoad

NextProcessor ==
    \/ ProcessShopData /\ UNCHANGED <<call, originalData, filteredData, activeFilters, sortCall, searchVars, pageVars, display, boxVars, loadVars>>
    \/ ProcessProductData /\ UNCHANGED <<call, originalData, filteredData, activeFilters, sortCall, searchVars, pageVars, display, boxVars, loadVars>>

SpecProcessor == InitProcessor /\ [][NextProcessor]_vars

\* the sort functions, each called on every array of sortable records
NextSort ==
    \/ SortProducts /\ UNCHANGED <<call, rawData, processed, heap, returned, originalData, filteredData, activeFilters, searchVars, pageVars, display, boxVars, loadVars>>
    \/ SortShops /\ UNCHANGED <<call, rawData, processed, heap, returned, originalData, filteredData, activeFilters, searchVars, pageVars, display, boxVars, loadVars>>

SpecSort == Init /\ [][NextSort]_vars

\* the search manager of a page
InitSearchManager ==
    /\ call = NoCall
    /\ rawData = <<>>
    /\ processed = NoCollection
    /\ heap = 0
    /\ returned = <<>>
    /\ originalData = <<>>
    /\ filteredData = <<>>
    /\ activeFilters = DefaultFilters
    /\ sortCall = NoSort
    /\ NewSearchManager
    /\ NoPage
    /\ NoSearchBox
    /\ NoLoad

NextSearch ==
    \/ InitSearch /\ UNCHANGED <<call, rawData, processed, heap, returned, originalData, filteredData, activeFilters, sortCall, pageVars, boxVars, loadVars>>
    \/ PerformSearch /\ UNCHANGED <<call, rawData, processed, heap, returned, originalData, filteredData, activeFilters, sortCall, pageVars, boxVars, loadVars>>
    \/ ClearRecentSearches /\ UNCHANGED <<call, rawData, processed, heap, returned, originalData, filteredData, activeFilters, sortCall, pageVars, boxVars, loadVars>>
    \/ RemoveRecentSearch /\ UNCHANGED <<call, rawData, processed, heap, returned, originalData, filteredData, activeFilters, sortCall, pageVars, boxVars, loadVars>>

SpecSearch == InitSearchManager /\ [][NextSearch]_vars

\* the text normalization, called on a text and on its own result
NextText ==
    \/ NormalizeVietnamese /\ UNCHANGED <<rawData, processed, heap, returned, originalData, filteredData, activeFilters, sortCall, searchVars, pageVars, display, boxVars, loadVars>>
    \/ NormalizeAgain /\ UNCHANGED <<rawData, processed, heap, returned, originalData, filteredData, activeFilters, sortCall, searchVars, pageVars, display, boxVars, loadVars>>

\* a text of Texts handed to the normalization
InitText ==
    /\ call \in { TextCall(text) : text \in Texts }
    /\ rawData = <<>>
    /\ processed = NoCollection
    /\ heap = 0
    /\ returned = <<>>
    /\ originalData = <<>>
    /\ filteredData = <<>>
    /\ activeFilters = DefaultFilters
    /\ sortCall = NoSort
    /\ NoSearchManager
    /\ NoPage
    /\ NoSearchBox
    /\ NoLoad

SpecText == InitText /\ [][NextText]_vars

\* the CSV handler of a page session
NextLoad ==
    \/ OpenPage /\ UNCHANGED <<call, rawData, processed, heap, returned, originalData, filteredData, activeFilters, sortCall, searchVars, pageVars, display, boxVars>>
    \/ LoadAgain /\ UNCHANGED <<call, rawData, processed, heap, returned, originalData, filteredData, activeFilters, sortCall, searchVars, pageVars, display, boxVars>>
    \/ Complete /\ UNCHANGED <<call, rawData, processed, heap, returned, originalData, filteredData, activeFilters, sortCall, searchVars, pageVars, display, boxVars>>
    \/ Fail /\ UNCHANGED <<call, rawData, processed, heap, returned, originalData, filteredData, activeFilters, sortCall, searchVars, pageVars, display, boxVars>>

SpecLoad == Init /\ [][NextLoad]_vars

\* the products page with its search box
InitSearchBox ==
    /\ call = NoCall
    /\ rawData = <<>>
    /\ processed = NoCollection
    /\ heap = 0
    /\ returned = <<>>
    /\ sortCall = NoSort
    /\ ProductsPage
    /\ NoSearchBox
    /\ NoLoad

InputStep == InputSearch /\ UNCHANGED <<call, rawData, processed, heap, returned, originalData, filteredData, activeFilters, sortCall, pageVars, loadVars>>

FireStep == TimerFires /\ UNCHANGED <<call, rawData, processed, heap, returned, originalData, filteredData, activeFilters, sortCall, pageVars, loadVars>>

TickStep == Tick /\ UNCHANGED <<call, rawData, processed, heap, returned, originalData, filteredData, activeFilters, sortCall, searchVars, pageVars, display, loadVars>>

NextSearchBox ==
    \/ InputStep
    \/ FireStep
    \/ TickStep
    \/ SetCategory /\ UNCHANGED <<call, rawData, processed, heap, returned, sortCall, searchVars, boxVars, loadVars>>

\* the clock advances and the event loop runs the timers that are due
SpecSearchBox == InitSearchBox /\ [][NextSearchBox]_vars /\ WF_vars(TickStep) /\ WF_vars(FireStep)

\* the subscribers of the two managers and the calls that notify them
NextListeners ==
    \/ SubscribeFilter /\ UNCHANGED <<call, rawData, processed, heap, returned, sortCall, searchVars, boxVars, loadVars>>
    \/ SubscribeSearch /\ UNCHANGED <<call, rawData, processed, heap, returned, originalData, filteredData, activeFilters, sortCall, pageVars, boxVars, loadVars>>
    \/ SetCategory /\ UNCHANGED <<call, rawData, processed, heap, returned, sortCall, searchVars, boxVars, loadVars>>
    \/ ResetFilters /\ UNCHANGED <<call, rawData, processed, heap, returned, sortCall, searchVars, boxVars, loadVars>>
    \/ ClearResults /\ UNCHANGED <<call, rawData, processed, heap, returned, originalData, filteredData, activeFilters, sortCall, pageVars, boxVars, loadVars>>
    \/ ClearRecentSearches /\ UNCHANGED <<call, rawData, processed, heap, returned, originalData, filteredData, activeFilters, sortCall, pageVars, boxVars, loadVars>>

SpecListeners == InitSearchManager /\ [][NextListeners]_vars

(***************************************************************************)
(* Properties                                                              *)
(***************************************************************************)

\* the number of places at which the array refs holds the reference ref
Occurrences(refs, ref) == Cardinality({k \in 1..Len(refs) : refs[k] = ref})

Returned == processed.kind # "none" /\ processed.status = "ok"

\* C1: in every collection processShopData or processProductData returns,
\* the lengths of highEnd, budget and mixed add up to the length of all and
\* every element of all is in exactly one of the three, whatever its tier.
C1_TierPartition ==
    Returned =>
        /\ Len(processed.highEnd) + Len(processed.budget) + Len(processed.mixed) = Len(processed.all)
        /\ \A i \in 1..Len(processed.all) :
             Occurrences(processed.highEnd, i) + Occurrences(processed.budget, i) + Occurrences(processed.mixed, i) = 1

\* the page has handed the all of its collection to the filter manager
DataLoaded == Returned /\ originalData = processed.all

\* C2: under the identity filter state, filteredData equals the all of the
\* loaded collection, contents and order, also when a product has a negative
\* discount.
C2_IdentityFilter == (DataLoaded /\ activeFilters = DefaultFilters) => filteredData = processed.all

\* the category, tier, price-range, minDiscount and minRating clauses, a
\* clause on a field the record does not have being skipped
PassesFieldClauses(item, f) ==
    /\ (f.category = All \/ item.category = f.category)
    /\ (f.tier = All \/ item.tier = f.tier)
    /\ (Has(item, "salePrice") => NumLe(f.minPrice, item.salePrice) /\ NumLe(item.salePrice, f.maxPrice))
    /\ (Has(item, "discount") => NumLe(f.minDiscount, item.discount))
    /\ (Has(item, "rating") => NumLe(f.minRating, parseFloat(item.rating)))

FieldClauseSubsequence(data, f) == LET keep(item) == PassesFieldClauses(item, f) IN SelectSeq(data, keep)

\* C3: for every originalData and filter state, filteredData is exactly the
\* subsequence of originalData, in its order, of the records that pass the
\* category, tier, price-range, minDiscount and minRating clauses.
C3_FilterSubsequence == filteredData = FieldClauseSubsequence(originalData, activeFilters)

\* the search clause without a minimum length: a record with a name passes
\* iff its normalized name contains the normalized query
PassesSearchClause(item, query) ==
    Truthy(Field(item, "name")) => includes(normalizeVietnamese(toString(item.name)), normalizeVietnamese(query))

SearchSubsequence(data, f) ==
    LET keep(item) == PassesFieldClauses(item, f) /\ PassesSearchClause(item, f.searchQuery) IN SelectSeq(data, keep)

\* C4: with a non-empty searchQuery of any length, one character included,
\* a named record stays in filteredData iff it passes the other clauses and
\* its normalized name contains the normalized query.
C4_SearchNoMinimumLength ==
    (originalData # <<>> /\ activeFilters.searchQuery # <<>>) => filteredData = SearchSubsequence(originalData, activeFilters)

\* digits, currency symbols and separator characters
IsPriceSymbol(c) == IsDigit(c) \/ c \in { ".", ",", " ", "dong" }

OnlyPriceSymbols(s) == \A i \in 1..Len(s) : IsPriceSymbol(s[i])

HasDigit(s) == \E i \in 1..Len(s) : IsDigit(s[i])

\* C5: on a string of digits, currency symbols and separators parsePrice
\* returns the number its digits spell when concatenated, and it returns 0
\* on an empty or unparsable input.
C5_PriceIsConcatenatedDigits ==
    call.fn = "parsePrice" =>
        /\ (call.arg.t = "string" /\ OnlyPriceSymbols(call.arg.s) /\ HasDigit(call.arg.s)) =>
              call.ret = Int2Num(DigitsValue(SelectSeq(call.arg.s, IsDigit)))
        /\ (call.arg.t # "number" /\ ~HasDigit(call.arg.s)) => call.ret = Int2Num(0)

\* the count the specification gives for a lower-cased string
SpecifiedCountOf(str) ==
    IF includes(str, <<"k">>) THEN RoundedTimes(parseFloatStr(str), 1000)
    ELSE IF includes(str, <<"m">>) THEN RoundedTimes(parseFloatStr(str), 1000000)
    ELSE OrDefault(parseIntDigits(SelectSeq(str, IsDigit)), Int2Num(0))

SpecifiedCount(raw) == IF ~Truthy(raw) THEN Int2Num(0) ELSE SpecifiedCountOf(toLowerCase(toString(raw)))

\* C6: parseSoldCount, parseRatingCount and parseFollowerCount return the
\* leading number times 1000 (k) or 1000000 (m) rounded to the nearest
\* integer, else the integer of the digits, and 0, never NaN, when no number
\* can be parsed.
C6_CountParsing ==
    call.fn \in { "parseSoldCount", "parseRatingCount", "parseFollowerCount" } =>
        /\ ~isNaN(call.ret)
        /\ call.ret = SpecifiedCount(call.arg)

NonNegative(x) == isFinite(x) /\ x.n >= 0

\* C7: in every canonical record soldCount is a non-negative integer and
\* ratingCount, followers, originalPrice and salePrice are non-negative
\* numbers.
C7_NonNegativeFields ==
    Returned =>
        \A i \in 1..Len(processed.all) :
            /\ processed.kind = "product" =>
                  /\ NonNegative(processed.all[i].soldCount) /\ isInteger(processed.all[i].soldCount)
                  /\ NonNegative(processed.all[i].originalPrice)
                  /\ NonNegative(processed.all[i].salePrice)
            /\ processed.kind = "shop" =>
                  /\ NonNegative(processed.all[i].ratingCount)
                  /\ NonNegative(processed.all[i].followers)

\* the input is there: neither undefined nor the empty string
Present(raw) == raw.t # "undefined" /\ raw # Str(<<>>)

\* C8: parseRating returns a number in [0, 5]: the parsed float clamped to
\* [0, 5] when the input is present and parsable, a numeric or textual zero
\* included, and 5 exactly when the input is absent or unparsable.
C8_RatingClamped ==
    call.fn = "parseRating" =>
        /\ NumLe(Int2Num(0), call.ret) /\ NumLe(call.ret, Int2Num(5))
        /\ (Present(call.arg) /\ ~isNaN(parseFloat(call.arg))) =>
              call.ret = MathMin(MathMax(parseFloat(call.arg), Int2Num(0)), Int2Num(5))
        /\ (~Present(call.arg) \/ isNaN(parseFloat(call.arg))) => call.ret = Int2Num(5)

\* C9: calculateDiscount returns 0 when original is falsy or <= 0 or sale is
\* falsy, and otherwise the integer round(100 * (original - sale) / original),
\* which is negative exactly when sale > original.
C9_DiscountFormula ==
    call.fn = "calculateDiscount" =>
        IF ~Truthy(call.arg) \/ ~Truthy(call.arg2) \/ NumLe(call.arg.v, Int2Num(0)) THEN call.ret = Int2Num(0)
        ELSE /\ call.ret = MathRound(exactPercent(call.arg.v, call.arg2.v))
             /\ isInteger(call.ret)
             /\ (NumLt(call.ret, Int2Num(0)) <=> NumGt(call.arg2.v, call.arg.v))

\* the references to the records of all whose category is k, in input order
CategoryRefs(all, k) == LET match(i) == all[i].category = k IN SelectSeq(Indices(Len(all)), match)

\* C10: in every returned collection byCategory has an entry for each known
\* category key, byCategory[k] is exactly the subsequence of all, in input
\* order, of the records whose category is k, and a record whose category is
\* no known key is in all and in no entry.
C10_ByCategory ==
    Returned =>
        /\ DOMAIN processed.byCategory = CategoryKeys
        /\ \A k \in CategoryKeys : processed.byCategory[k] = CategoryRefs(processed.all, k)
        /\ \A i \in 1..Len(processed.all) :
             processed.all[i].category \notin CategoryKeys =>
                \A k \in CategoryKeys : Occurrences(processed.byCategory[k], i) = 0

\* a returned collection holding two records of one known category and a
\* record of an unknown category
C10_Witness ==
    /\ Returned
    /\ \E k \in CategoryKeys : Len(processed.byCategory[k]) >= 2
    /\ \E i \in 1..Len(processed.all) : processed.all[i].category \notin CategoryKeys

\* the references to the records of all sold more than 100 times
SoldOverHundred(all) == {i \in 1..Len(all) : NumGt(all[i].soldCount, Int2Num(100))}

\* refs is ordered by non-increasing soldCount, equal soldCounts in input order
DescendingBySold(all, refs) ==
    \A a, b \in 1..Len(refs) :
        a < b => \/ NumGt(all[refs[a]].soldCount, all[refs[b]].soldCount)
                 \/ (all[refs[a]].soldCount = all[refs[b]].soldCount /\ refs[a] < refs[b])

\* C11: for products, bestSellers holds exactly the records of all with
\* soldCount > 100, each once, ordered by non-increasing soldCount, records
\* of equal soldCount in their input order.
C11_BestSellers ==
    (Returned /\ processed.kind = "product") =>
        /\ {processed.bestSellers[k] : k \in 1..Len(processed.bestSellers)} = SoldOverHundred(processed.all)
        /\ Len(processed.bestSellers) = Cardinality(SoldOverHundred(processed.all))
        /\ DescendingBySold(processed.all, processed.bestSellers)

\* best sellers that the sort has moved: two of equal soldCount, in input
\* order, behind a later record that sold more
C11_Witness ==
    /\ Returned /\ processed.kind = "product"
    /\ processed.bestSellers = <<3, 1, 2>>
    /\ processed.all[1].soldCount = processed.all[2].soldCount

\* all[i] is a canonical form of the raw record data[i]
CanonicalOf(kind, record, raw) ==
    IF kind = "shop" THEN \E rnd \in ShopDraws(raw) : record = normalizeShopData(raw, rnd.id)
    ELSE \E rnd \in ProductDraws(raw) : record = normalizeProductData(raw, rnd.id, rnd.rating)

\* a returned collection keeps every record at its place
KeepsRecords ==
    Returned =>
        /\ Len(processed.all) = Len(rawData)
        /\ \A i \in 1..Len(processed.all) : CanonicalOf(processed.kind, processed.all[i], rawData[i])

\* the structures returned so far have no object in common
FreshStructures == \A i, j \in 1..Len(returned) : i # j => returned[i] \cap returned[j] = {}

\* C12: processShopData and processProductData never drop or reorder
\* records: all has the length of the input and all[i] is the canonical form
\* of input[i]; the raw records are the same after the call; and two calls on
\* the same input return distinct structures that share no arrays.
C12_FreshAndComplete == [](KeepsRecords /\ FreshStructures) /\ [][rawData' = rawData]_vars

\* a second call on the same one-record array has returned
C12_Witness == Len(returned) = 2 /\ Len(processed.all) = 1 /\ Returned

\* C13: normalizing a raw record whose fields are missing, strings or
\* primitive scalars never raises and never drops the record: the process
\* call completes with one canonical record per raw record.
C13_NeverRaises == processed.kind # "none" => (processed.status = "ok" /\ Len(processed.all) = Len(rawData))

\* the sort keys the specification supports
SupportedKeys == { "price-asc", "price-desc", "discount-desc", "sold-desc", "rating-desc", "rating-asc", "name-asc", "name-desc" }

\* C14: sortProducts and sortShops leave the array they are given as it was
\* and return another array object; for a sort key that is not supported the
\* returned array has the elements of the input in the same order.
C14_SortCopies ==
    sortCall.fn # "none" =>
        /\ sortCall.after = sortCall.items
        /\ sortCall.result.addr # sortCall.given
        /\ (sortCall.sortBy \notin SupportedKeys => sortCall.result.items = sortCall.items)

\* a sort that returned the elements in another order than the given one
C14_Witness ==
    /\ sortCall.fn = "sortProducts" /\ sortCall.sortBy = "price-desc"
    /\ Len(sortCall.items) = 3
    /\ sortCall.result.items # sortCall.items
    /\ sortCall.after = sortCall.items

\* the numeric sort keys and the field each compares, where the records of
\* the array have that field
NumericKeys(fn) ==
    IF fn = "sortProducts" THEN { "price-asc", "price-desc", "discount-desc", "sold-desc", "rating-desc", "rating-asc" }
    ELSE { "rating-desc", "rating-asc" }

NumericKeyOf(fn, sortBy, item) ==
    CASE sortBy \in { "price-asc", "price-desc" } -> item.salePrice
      [] sortBy = "discount-desc" -> item.discount
      [] sortBy = "sold-desc" -> item.soldCount
      [] OTHER -> IF fn = "sortProducts" THEN parseFloat(item.rating) ELSE item.rating.v

Ascending(sortBy) == sortBy \in { "price-asc", "rating-asc" }

CountIn(seq, x) == Cardinality({i \in 1..Len(seq) : seq[i] = x})

Permutation(a, b) == Len(a) = Len(b) /\ \A i \in 1..Len(a) : CountIn(a, a[i]) = CountIn(b, a[i])

\* no element of seq is followed by one the comparator puts before it
OrderedBy(fn, sortBy, seq) ==
    \A a, b \in 1..Len(seq) :
        a < b => IF Ascending(sortBy) THEN ~NumLt(NumericKeyOf(fn, sortBy, seq[b]), NumericKeyOf(fn, sortBy, seq[a]))
                 ELSE ~NumGt(NumericKeyOf(fn, sortBy, seq[b]), NumericKeyOf(fn, sortBy, seq[a]))

\* C15: for each supported numeric sort key the result is a permutation of
\* the input ordered by the comparator of the key: price-asc / price-desc by
\* salePrice, discount-desc by discount, sold-desc by soldCount, rating-desc
\* and rating-asc by numeric rating, for products and, where the field
\* exists, for shops.
C15_SortOrders ==
    (sortCall.fn # "none" /\ sortCall.sortBy \in NumericKeys(sortCall.fn)) =>
        /\ Permutation(sortCall.items, sortCall.result.items)
        /\ OrderedBy(sortCall.fn, sortCall.sortBy, sortCall.result.items)

\* what the comparator of the key reads of each record of seq
SortKeysOf(fn, sortBy, seq) ==
    IF sortBy \in { "name-asc", "name-desc" } THEN [i \in 1..Len(seq) |-> CollationKey(seq[i].name.s)]
    ELSE [i \in 1..Len(seq) |-> NumericKeyOf(fn, sortBy, seq[i])]

\* the elements of seq at the places at, in that order
ElementsAt(seq, at) == [k \in 1..Len(at) |-> seq[at[k]]]

\* the records of seq whose key is key, in the order of seq
TiedWith(seq, keys, key) == LET tied(j) == keys[j] = key IN ElementsAt(seq, SelectSeq(Indices(Len(seq)), tied))

SameOrderOfTies(given, givenKeys, result, resultKeys) ==
    \A i \in 1..Len(given) : TiedWith(result, resultKeys, givenKeys[i]) = TiedWith(given, givenKeys, givenKeys[i])

\* the keys under which the records of the array can be compared
ComparableKeys(fn) == NumericKeys(fn) \cup { "name-asc", "name-desc" }

\* C16: sorting is stable: under any supported key, the records that
\* compare equal come in the result in the relative order they have in the
\* input.
C16_SortStable ==
    (sortCall.fn # "none" /\ sortCall.sortBy \in ComparableKeys(sortCall.fn)) =>
        SameOrderOfTies(sortCall.items, SortKeysOf(sortCall.fn, sortCall.sortBy, sortCall.items),
                        sortCall.result.items, SortKeysOf(sortCall.fn, sortCall.sortBy, sortCall.result.items))

\* 'sold-desc' over two different records of equal soldCount behind a record
\* that sold less: the sort moves the two and keeps their order
C16_Witness ==
    /\ sortCall.fn = "sortProducts" /\ sortCall.sortBy = "sold-desc"
    /\ Len(sortCall.items) = 3
    /\ sortCall.items[2] # sortCall.items[3]
    /\ sortCall.items[2].soldCount = sortCall.items[3].soldCount
    /\ sortCall.result.items = <<sortCall.items[2], sortCall.items[3], sortCall.items[1]>>

\* the places of text where a space-delimited token starts
TokenStarts(text) == {p \in 1..(Len(text) + 1) : p = 1 \/ text[p - 1] = " "}

\* the token of text starting at place p starts with query
TokenStartsWith(text, p, query) ==
    /\ \A k \in 1..Len(query) : query[k] # " "
    /\ p + Len(query) - 1 <= Len(text)
    /\ SubSeq(text, p, p + Len(query) - 1) = query

\* query occurs in text
Contains(text, query) == \E p \in 1..(Len(text) + 1) : p + Len(query) - 1 <= Len(text) /\ SubSeq(text, p, p + Len(query) - 1) = query

\* the score the scoring table gives an index entry for a normalized query
SpecifiedScore(query, entry) ==
    (IF entry.normalizedName = query THEN 100 ELSE 0)
    + (IF Len(query) <= Len(entry.normalizedName) /\ SubSeq(entry.normalizedName, 1, Len(query)) = query THEN 50 ELSE 0)
    + (IF Contains(entry.normalizedName, query) THEN 30 ELSE 0)
    + (IF Contains(entry.searchText, query) THEN 15 ELSE 0)
    + 10 * Cardinality({p \in TokenStarts(entry.searchText) : TokenStartsWith(entry.searchText, p, query)})

\* entry i of the index goes before entry j: a higher score, or the same
\* score and built earlier
RanksBefore(scores, i, j) == scores[i] > scores[j] \/ (scores[i] = scores[j] /\ i < j)

\* result holds the entries of index at the places at
ResultAt(index, result, at) == Len(at) = Len(result) /\ \A k \in 1..Len(at) : result[k] = index[at[k]]

\* the places at are the best ones of the places of positive score, in
\* order, and no more than limit
BestOf(scores, at, limit) ==
    /\ \A k \in 1..Len(at) : scores[at[k]] > 0
    /\ \A k, l \in 1..Len(at) : k < l => RanksBefore(scores, at[k], at[l])
    /\ \A i \in 1..Len(scores) : (scores[i] > 0 /\ \A k \in 1..Len(at) : at[k] # i) => (Len(at) = limit /\ \A k \in 1..Len(at) : RanksBefore(scores, at[k], i))
    /\ Len(at) <= limit

\* the places of the index whose entries the result holds, entries having
\* their own ids
PlacesOf(index, result) == [k \in 1..Len(result) |-> CHOOSE i \in 1..Len(index) : index[i].id = result[k].id]

TextuallyMatches(entry, query) == Contains(entry.searchText, query) \/ Contains(entry.normalizedName, query)

SpecifiedResults(index, query, result, at) ==
    /\ \A k \in 1..Len(result) : \E i \in 1..Len(index) : index[i].id = result[k].id
    /\ ResultAt(index, result, at)
    /\ BestOf(evaluated([i \in 1..Len(index) |-> SpecifiedScore(query, index[i])]), at, maxResults)
    /\ \A k \in 1..Len(result) : TextuallyMatches(result[k], query)

Searched == searchCall.op = "performSearch" /\ Len(searchCall.query) >= minQueryLength

\* C17: a search for a query of at least the minimum length returns exactly
\* the index entries whose score (+100 name equals the normalized query, +50
\* name starts with it, +30 name contains it, +15 search text contains it,
\* +10 per space-delimited token of the search text starting with it) is
\* positive, ordered by non-increasing score with ties in index build order
\* and truncated to maxResults; every returned entry's name or search text
\* contains the normalized query; the results are also what the manager keeps
C17_SearchResults ==
    Searched =>
        /\ SpecifiedResults(searchManager.searchIndex, normalizeVietnamese(searchCall.query), searchCall.result,
                            evaluated(PlacesOf(searchManager.searchIndex, searchCall.result)))
        /\ searchManager.searchResults = searchCall.result

\* a search of more than maxResults products for "ao": the fifty best are
\* returned, an exact name before the names that only start with the query
C17_Witness ==
    /\ Searched
    /\ searchCall.query = <<"a", "o">>
    /\ Len(searchManager.searchIndex) > maxResults
    /\ Len(searchCall.result) = maxResults
    /\ searchCall.result[1] = searchManager.searchIndex[2]
    /\ searchCall.result[2] = searchManager.searchIndex[4]
    /\ searchCall.result[maxResults] = searchManager.searchIndex[47]

\* the list the store holds: none stored is the empty list
PersistedSearches == IF localStorage = NoItem THEN <<>> ELSE localStorage[2]

\* the recent searches are at most ten, no two for the same query string,
\* newest first (timestamps never increase along the list, and a search
\* just recorded is at the head), each for a query of at least the minimum
\* length
WellFormedSearches(recentSearches) ==
    /\ Len(recentSearches) <= 10
    /\ \A k, l \in 1..Len(recentSearches) :
         /\ k # l => recentSearches[k].query # recentSearches[l].query
         /\ k < l => recentSearches[k].timestamp >= recentSearches[l].timestamp
    /\ Searched => (recentSearches # <<>> /\ recentSearches[1] = [query |-> searchCall.query, timestamp |-> now])
    /\ \A k \in 1..Len(recentSearches) : Len(recentSearches[k].query) >= minQueryLength

\* C18: the recent searches are at most ten, without duplicate queries,
\* newest first, each for a query of at least the minimum length, and the
\* stored list equals the list in memory
C18_RecentSearches ==
    WellFormedSearches(searchManager.recentSearches) /\ PersistedSearches = searchManager.recentSearches

\* C18 as the code has it: the list in memory is well formed, and the stored
\* list equals it after every call whose write the store accepted
C18_RecentSearchesWhenStored ==
    /\ WellFormedSearches(searchManager.recentSearches)
    /\ searchCall.wrote = "accepted" => PersistedSearches = searchManager.recentSearches

\* ten searches were stored and a new query is searched: it is recorded at
\* the head, the oldest entry is dropped and the store holds the new list
C18_Witness ==
    /\ Searched
    /\ searchCall.query = <<"a", "o">>
    /\ Len(searchManager.recentSearches) = 10
    /\ searchManager.recentSearches[1].query = <<"a", "o">>
    /\ searchManager.recentSearches[2].query = <<"q", "0">>
    /\ searchManager.recentSearches[10].query = <<"q", "8">>
    /\ searchCall.wrote = "accepted"
    /\ localStorage # NoItem
    /\ localStorage[2] = searchManager.recentSearches

\* the records of data that pass the filters f
Filtered(data, f) == LET passes(item) == passesFilters(item, f) IN SelectSeq(data, passes)

AfterSetter == filterCall.op \in { "setter", "resetFilters" }

\* C19: after a setter or resetFilters filteredData is the filter run over
\* the whole of originalData and every subscribed listener was called
\* exactly once with it; no other operation changes the filter state
C19_SettersRefilterAndNotify ==
    /\ AfterSetter =>
          /\ filteredData = Filtered(originalData, activeFilters)
          /\ Len(filterCall.notified) = Len(listeners)
          /\ \A k \in 1..Len(listeners) : filterCall.notified[k] = [listener |-> listeners[k], data |-> filteredData]
    /\ ~AfterSetter => ~filterCall.changed

\* the filter of a key of the query string differs from its default
Constrains(f, key) ==
    CASE key = "category" -> f.category # All
      [] key = "tier" -> f.tier # All
      [] key = "minPrice" -> f.minPrice # Int2Num(0)
      [] key = "maxPrice" -> f.maxPrice # Infinity
      [] key = "minDiscount" -> f.minDiscount # Int2Num(0)
      [] key = "search" -> f.searchQuery # <<>>

\* C20: after a filter mutation the query string holds each of the keys
\* category, tier, minPrice, maxPrice, minDiscount and search exactly when
\* the filter of the key differs from its default
C20_QueryStringFollowsFilters ==
    AfterSetter => \A key \in ParamKeys : (location[key] # Unset) <=> Constrains(activeFilters, key)

(***************************************************************************)
(* C23: normalizing search text twice gives the same string as normalizing *)
(* it once: normalizeVietnamese called on a string it returned returns     *)
(* that string.                                                            *)
(***************************************************************************)
C23_NormalizeIdempotent == (call.fn = "normalizeVietnamese" /\ call.again) => call.ret = call.arg

\* a text with an accent, a capital and a space around it was normalized to
\* another string, and that string normalized again
C23_Witness ==
    /\ call.fn = "normalizeVietnamese"
    /\ call.again
    /\ call.from = <<" ", "A_acute", "u_horn_hook">>
    /\ call.arg = <<"a", "u">>
    /\ call.ret = <<"a", "u">>

(***************************************************************************)
(* C24: in every processed collection byTier mirrors the tier buckets:     *)
(* byTier.n1 is highEnd, byTier.n2 is budget and byTier.n3 is mixed, the   *)
(* same records in the same order, also when a record went to mixed        *)
(* because its tier is missing or not recognized.                          *)
(***************************************************************************)
C24_ByTierMirrorsBuckets ==
    Returned =>
        /\ processed.byTier[<<"n", "1">>] = processed.highEnd
        /\ processed.byTier[<<"n", "2">>] = processed.budget
        /\ processed.byTier[<<"n", "3">>] = processed.mixed

\* what getStatistics() returns in the state
Statistics == getStatistics(originalData, filteredData, activeFilters)

(***************************************************************************)
(* C27: after every setData, setter and resetFilters call filteredData is  *)
(* the result of applying the current activeFilters to the current         *)
(* originalData, and the filteredItems of getStatistics is at most its     *)
(* totalItems; also after setData([]) on a manager that held data.         *)
(***************************************************************************)
C27_FilteredFollowsData ==
    filterCall.op \in { "setData", "setter", "resetFilters" } =>
        /\ filteredData = Filtered(originalData, activeFilters)
        /\ Statistics.filteredItems <= Statistics.totalItems

(***************************************************************************)
(* C30: in every state the appliedFilters of getStatistics is the number   *)
(* of keys of the activeFilters returned with it.                          *)
(***************************************************************************)
C30_StatisticsAgree == Statistics.appliedFilters = Cardinality(Statistics.activeFilters)

(***************************************************************************)
(* C21: a load failure is a rejection: the promise of loadCSV is rejected  *)
(* when the download fails and when the parse reports errors, nothing is   *)
(* cached for the file in either case, and an init that awaits the load    *)
(* ends in the error state.                                                *)
(***************************************************************************)
C21_LoadFailureRejects ==
    /\ (loadCall.op = "error" \/ (loadCall.op = "complete" /\ loadCall.errors > 0)) =>
          /\ loadCall.rejected
          /\ ~loadCall.stored
    /\ (loadCall.rejected /\ loadCall.awaited) => app.state = "error"

(***************************************************************************)
(* C29: isLoading is true exactly when a request of loadCSV is in flight,  *)
(* whatever the order in which concurrent loads complete; a loadCSV call   *)
(* for a cached file starts no request and leaves isLoading as it is.      *)
(***************************************************************************)
C29_IsLoadingTracksRequests ==
    /\ isLoading <=> requests # {}
    /\ \A k \in 1..Len(loadCall.calls) :
          loadCall.calls[k].cached => (~loadCall.calls[k].fetch /\ loadCall.calls[k].after = loadCall.calls[k].before)

\* the calls made are one for each of the listeners subscribed, in the
\* order of the subscriptions, each with data
EachOnce(notified, subscribed, data) ==
    /\ Len(notified) = Len(subscribed)
    /\ \A k \in 1..Len(subscribed) : notified[k] = [listener |-> subscribed[k], data |-> data]

(***************************************************************************)
(* C26: a listener that throws during notifyListeners stops neither the    *)
(* caller nor the other listeners: after every operation of FilterManager  *)
(* and of SearchManager that notifies, no exception has reached the caller *)
(* and every listener subscribed was called exactly once, in the order of  *)
(* the subscriptions.                                                      *)
(***************************************************************************)
C26_ListenersIsolated ==
    /\ filterCall.op \in { "setter", "resetFilters" } =>
          /\ ~filterCall.raised
          /\ EachOnce(filterCall.notified, listeners, filteredData)
    /\ searchCall.op \in { "performSearch", "clearResults", "clearRecentSearches", "removeRecentSearch" } =>
          /\ ~searchCall.raised
          /\ EachOnce(searchCall.notified, searchListeners, searchManager.searchResults)

\* in both managers a listener that throws was subscribed before the one of
\* the page, and both were called by a setter and by clearResults
C26_Witness ==
    /\ listeners = <<"faulty", "onFilterChange">>
    /\ filterCall.op = "setter"
    /\ Len(filterCall.notified) = 2
    /\ searchListeners = <<"faulty", "onSearchChange">>
    /\ searchCall.op = "clearResults"
    /\ Len(searchCall.notified) = 2
    /\ display.shown = "search"

\* the records of the results the search manager holds
ResultRecords == { searchManager.searchResults[k].originalData : k \in 1..Len(searchManager.searchResults) }

\* the scored search for the query in the input has run and nothing is pending
SearchActive == Len(input) >= minQueryLength /\ timers = {} /\ burst.runs = 1 /\ burst.ran.query = input

(***************************************************************************)
(* C22: while a scored search is active the page shows the results of the  *)
(* search over the whole collection, whatever the filters are and also     *)
(* after a filter mutation made once the results are shown.                *)
(***************************************************************************)
C22_SearchSupersedesFilters == SearchActive => display = [shown |-> "search", items |-> ResultRecords]

(***************************************************************************)
(* C28: while the search input is empty the page shows the filtered data:  *)
(* no debounced search of an earlier keystroke runs after the input was    *)
(* cleared and puts its results in their place.                            *)
(***************************************************************************)
C28_ClearedInputShowsFilterData ==
    input = <<>> =>
        /\ display = rendered("filter", filteredData)
        /\ searchCall.op # "performSearch"

\* at most one deferred search is pending; the calls made since a search
\* last ran have led to no run yet, and a run is the only one since the last
\* call, was made with the query of that call and not before debounceDelay
\* had passed since it
OneRunAfterTheWindow ==
    /\ Cardinality(timers) <= 1
    /\ burst.runs <= 1
    /\ burst.calls > 0 => (burst.runs = 0 /\ timers # {})
    /\ burst.runs = 1 =>
          /\ burst.ran.query = burst.query
          /\ burst.ran.since >= debounceDelay
          /\ timers = {}

(***************************************************************************)
(* C25: the calls of search(query) that follow each other within the       *)
(* debounce window lead to one run of performSearch, made after the window *)
(* has passed since the last call and with the query of the last call; at  *)
(* most one deferred run is pending at any time, and a pending run is      *)
(* made in the end.                                                        *)
(***************************************************************************)
C25_DebouncedSearch == [](OneRunAfterTheWindow) /\ ((timers # {}) ~> (timers = {}))

\* two calls within the window were followed by one run, with the query of
\* the second call
C25_Witness ==
    /\ burst.runs = 1
    /\ burst.ran = [query |-> <<"t", "h">>, since |-> debounceDelay, calls |-> 2]
    /\ searchCall.op = "performSearch"
    /\ searchCall.query = <<"t", "h">>
    /\ timers = {}

====
